---- MODULE Spec2Model ----
(***************************************************************************)
(* The autonomous generation loop of Bubble (runAutonomousAgent), its      *)
(* retry policy (generateContentStreamWithRetry) and its tag routing; and, *)
(* each on its own, the tag parser, the SSE reader of                      *)
(* generateOpenRouterStream, fetchContentsForResults, a search batch and   *)
(* saveMemory.  The sources SearchStatus shows are an operator on the      *)
(* citations of a result.                                                  *)
(*                                                                         *)
(* Text is a sequence of tokens.  A token is a control tag ("<IMAGE>",     *)
(* "</IMAGE>", ...), a whitespace run (" ") or a run of ordinary text      *)
(* ("a red fox").  String concatenation is \o, the empty string is <<>>.   *)
(* A tag that arrives split over two deltas behaves as if it arrived with  *)
(* the second one, so tags are kept whole.                                 *)
(***************************************************************************)
EXTENDS Integers, Sequences, FiniteSets, TLC

\* ------------------------------------------------------------ constants

MAX_LOOPS == 6

retries == 3

\* The tag units (or plain runs) a segment given to the parser alone is made of.
MaxUnits == 3

\* Cap of the saturating count of backoff sleeps of one retry call.
WaitCap == 4

\* The responses carrying a SEARCH tag that the backends give in one invocation.
MaxSearchTurns == 1

\* The complete lines of a response body given to the SSE reader alone.
MaxLines == 3

\* The search results given to fetchContentsForResults alone, and its limit.
MaxResults == 3

MaxLimit == 2

\* The queries of a search batch run on its own.
MaxQueries == 2

\* The saveMemory calls made on one key.
MaxCalls == 3

\* runMcpWebSearch(q, 20) and fetchContentsForResults(results, 20)
SearchLimit == 20

\* content.slice(0, 15000)
ContentCap == 15000

\* r.content.trim().length > 50
MinContent == 50

FallbackModel == "gemini-2.5-flash"

DefaultDeepModel == "gemini-3-pro-preview"

Placeholder == <<"(Generation stopped by user)">>

\* ------------------------------------------------------------ helpers

SetMin(S) == CHOOSE x \in S : \A y \in S : x <= y

SetMax(S) == CHOOSE x \in S : \A y \in S : x >= y

RECURSIVE Flatten(_)
Flatten(ss) == IF ss = <<>> THEN <<>> ELSE Head(ss) \o Flatten(Tail(ss))

\* ------------------------------------------------------------ text

Whitespace == {" "}

\* String.prototype.trim on a token sequence.
Trim(s) ==
    LET keep == {i \in 1..Len(s) : s[i] \notin Whitespace}
    IN  IF keep = {} THEN <<>> ELSE SubSeq(s, SetMin(keep), SetMax(keep))

ClosingTags ==
    {"</CANVAS_TRIGGER>", "</CANVASTRIGGER>", "</SEARCH>", "</DEEP>",
     "</IMAGE>", "</PROJECT>", "</CANVAS>", "</STUDY>"}

OpeningTags ==
    {"<CANVAS_TRIGGER>", "<SEARCH>", "<DEEP>", "<IMAGE>", "<PROJECT>",
     "<CANVAS>", "<STUDY>"}

\* generatedThisLoop.includes('</...>') for one of the eight closing tags.
HasClosingTag(buf) == \E i \in 1..Len(buf) : buf[i] \in ClosingTags

NoMatch == [found |-> FALSE, inner |-> <<>>, end |-> 0]

\* The capture group misplaced: it runs over the closing tag.
MatchFromInclusive(buf, from, open, close) ==
    LET starts == {i \in from..Len(buf) :
                      /\ buf[i] = open
                      /\ \E j \in (i+1)..Len(buf) : buf[j] = close}
    IN  IF starts = {} THEN NoMatch
        ELSE LET i == SetMin(starts)
                 j == SetMin({k \in (i+1)..Len(buf) : buf[k] = close})
             IN  [found |-> TRUE, inner |-> SubSeq(buf, i+1, j), end |-> j]

\* buf.match(/open([\s\S]*?)close/) looking from position `from` on: the
\* leftmost opening tag that has a closing tag after it, up to the nearest one.
MatchFrom(buf, from, open, close) ==
    LET starts == {i \in from..Len(buf) :
                      /\ buf[i] = open
                      /\ \E j \in (i+1)..Len(buf) : buf[j] = close}
    IN  IF starts = {} THEN NoMatch
        ELSE LET i == SetMin(starts)
                 j == SetMin({k \in (i+1)..Len(buf) : buf[k] = close})
             IN  [found |-> TRUE, inner |-> SubSeq(buf, i+1, j-1), end |-> j]

Match(buf, open, close) == MatchFrom(buf, 1, open, close)

\* Array.from(buf.matchAll(/open([\s\S]*?)close/g)): the capture groups of the
\* successive non-overlapping matches.
RECURSIVE MatchAllFrom(_, _, _, _)
MatchAllFrom(buf, from, open, close) ==
    LET rest(m) == IF ~m.found THEN <<>>
                   ELSE <<m.inner>> \o MatchAllFrom(buf, m.end + 1, open, close)
    IN  CHOOSE r \in {rest(m) : m \in {MatchFrom(buf, from, open, close)}} : TRUE

MatchAll(buf, open, close) == MatchAllFrom(buf, 1, open, close)

\* The capture groups as they are: not trimmed, the empty ones kept.
QueriesUntrimmed(matches) == matches

\* searchMatches.map(m => m[1] ? m[1].trim() : "").filter(q => q)
RECURSIVE Queries(_)
Queries(matches) ==
    IF matches = <<>> THEN <<>>
    ELSE LET q == Trim(Head(matches))
         IN  (IF q = <<>> THEN <<>> ELSE <<q>>) \o Queries(Tail(matches))

\* ------------------------------------------------------------ models

ModelIds ==
    {"", "gemini-2.5-flash", "gemini-3-pro-preview", "gemini-1.5-pro",
     "openai/gpt-4o", "perplexity/sonar"}

\* lower.startsWith('gemini') || lower.startsWith('veo') || lower.includes('google'),
\* and true for an empty id, evaluated on ModelIds.
isGoogleModel(m) ==
    \/ m = ""
    \/ m \in {"gemini-2.5-flash", "gemini-3-pro-preview", "gemini-1.5-pro"}

\* model.includes('gemini-2.5') || model.includes('gemini-3'), on ModelIds.
IsThinkingCapable(m) == m \in {"gemini-2.5-flash", "gemini-3-pro-preview"}

\* model.includes('perplexity'), on ModelIds.
IncludesPerplexity(m) == m = "perplexity/sonar"

\* The model, backend and thinking budget the invocation runs with.
ResolveModel(mode, requested, hasKey, preferredDeep) ==
    LET m1 == IF requested = "" THEN FallbackModel ELSE requested
        keyMissing == ~isGoogleModel(m1) /\ ~hasKey
        m2 == IF keyMissing THEN FallbackModel ELSE m1
        n2 == IF keyMissing THEN TRUE ELSE isGoogleModel(m1)
        m3 == CASE mode = "deep" ->
                     IF preferredDeep # "" THEN preferredDeep ELSE DefaultDeepModel
                 [] mode = "think" -> FallbackModel
                 [] OTHER -> m2
        n3 == CASE mode = "deep" -> isGoogleModel(m3)
                 [] mode = "think" -> TRUE
                 [] OTHER -> n2
        budget == CASE mode = "deep" -> 8192
                     [] mode = "think" -> 2048
                     [] OTHER -> 0
        m4 == IF budget > 0 /\ n3 /\ ~IsThinkingCapable(m3) THEN FallbackModel ELSE m3
    IN  [model |-> m4, isNative |-> n3, thinkingBudget |-> budget]

\* ------------------------------------------------------------ search

\* Prompts of the model's universe that contain one of the search keywords
\* ("latest", "today", "news", ...).
KeywordTexts == {<<"latest news">>}

Undefined == <<"undefined">>

\* The early return for a model with built-in search left out.
shouldUseExternalSearchAnyModel(userMessage, modelSupportsSearch, hasSearchTag) ==
    (userMessage \in KeywordTexts) \/ hasSearchTag

\* shouldUseExternalSearch, for a defined userMessage.
shouldUseExternalSearch(userMessage, modelSupportsSearch, hasSearchTag) ==
    IF modelSupportsSearch THEN FALSE
    ELSE (userMessage \in KeywordTexts) \/ hasSearchTag

\* userMessage.toLowerCase() on undefined: a TypeError, unless the early
\* return for a model with built-in search is taken first.
shouldUseExternalSearchThrows(userMessage, modelSupportsSearch) ==
    ~modelSupportsSearch /\ userMessage = Undefined

\* Pages whose content was fetched: they passed content.trim().length > 50.
Page1 == [url |-> "u1", title |-> "t1", content |-> <<"c1">>]

Page3 == [url |-> "u3", title |-> "t3", content |-> <<"c3">>]

\* A search result returned as it is after the content-fetch timeout: it has a
\* snippet and no content.
Page2 == [url |-> "u2", title |-> "t2", content |-> <<>>]

\* What runMcpWebSearch followed by fetchContentsForResults can give for one
\* query: nothing (no result, or no page with enough content); the pages whose
\* content was fetched; or, after the timeout, the bare search results.
PageOutcomes == {<<>>, <<Page1, Page3>>, <<Page2>>}

\* pages.map(p => ({ web: { uri: p.url, title: p.title } }))
RECURSIVE ToMeta(_)
ToMeta(pages) ==
    IF pages = <<>> THEN <<>>
    ELSE <<[uri |-> Head(pages).url, title |-> Head(pages).title]>> \o ToMeta(Tail(pages))

\* res.pages.map((p, i) => `[${i+1}] ${p.title} (${p.url}):\n${p.content}`)
RECURSIVE PageText(_)
PageText(pages) ==
    IF pages = <<>> THEN <<>>
    ELSE <<Head(pages).title, Head(pages).url>> \o Head(pages).content
         \o PageText(Tail(pages))

\* No filter: the queries without pages are kept.
ValidResultsAll(rs) == rs

\* parallelResults.filter(r => r.pages.length > 0)
RECURSIVE ValidResults(_)
ValidResults(rs) ==
    IF rs = <<>> THEN <<>>
    ELSE (IF Len(Head(rs).pages) > 0 THEN <<Head(rs)>> ELSE <<>>)
         \o ValidResults(Tail(rs))

\* Only the pages of the first valid query are cited.
\* The mutation under which a push would replace the array.
PushReplaces(arr, items) == items

\* metadataPayload.groundingMetadata.push(...items) (lines 371, 470).
Push(arr, items) == arr \o items

AllNewMetaFirst(valid) ==
    IF valid = <<>> THEN <<>> ELSE ToMeta(Head(valid).pages)

\* validResults.forEach(res => res.pages.forEach(p => allNewMeta.push(...)))
RECURSIVE AllNewMeta(_)
AllNewMeta(valid) ==
    IF valid = <<>> THEN <<>>
    ELSE ToMeta(Head(valid).pages) \o AllNewMeta(Tail(valid))

RECURSIVE AggregatedContext(_)
AggregatedContext(valid) ==
    IF valid = <<>> THEN <<>>
    ELSE <<"=== WEB RESULTS FOR QUERY:">> \o Head(valid).query
         \o PageText(Head(valid).pages) \o AggregatedContext(Tail(valid))

SynthesisPrompt(prompt, queries, context) ==
    <<"USER ORIGINALLY ASKED:">> \o prompt \o <<"searches:">> \o Flatten(queries)
    \o <<"SEARCH CONTEXT:">> \o context \o <<"INSTRUCTIONS:">>

\* ------------------------------------------------------------ shown sources

\* The mutation under which the last occurrence of a URL is the one kept.
FindLastIndex(a, v) == SetMax({i \in 1..Len(a) : a[i].uri = v.uri})

\* a.findIndex(t => t.web?.uri === v.web?.uri), counted from 1.
FindIndex(a, v) == SetMin({i \in 1..Len(a) : a[i].uri = v.uri})

RECURSIVE UniqueFrom(_, _)
UniqueFrom(a, i) ==
    IF i > Len(a) THEN <<>>
    ELSE (IF FindIndex(a, a[i]) = i THEN <<a[i]>> ELSE <<>>) \o UniqueFrom(a, i + 1)

\* SearchStatus: uniqueSources = sources.filter((v, i, a) => a.findIndex(...) === i)
UniqueSources(sources) == UniqueFrom(sources, 1)

\* ------------------------------------------------------------ errors

NoError == [name |-> "none", status |-> 0, msg |-> {}]

\* Errors of ai.models.generateContentStream: the HTTP status and the marker
\* substrings the message contains.
Err404 == [name |-> "ApiError", status |-> 404, msg |-> {"not found"}]

Err429 == [name |-> "ApiError", status |-> 429, msg |-> {"quota"}]

Err500 == [name |-> "ApiError", status |-> 500, msg |-> {}]

\* A rate-limit response whose message also holds the digits 404
\* ("... Please retry in 12.404s").
Err429Msg404 == [name |-> "ApiError", status |-> 429, msg |-> {"quota", "404"}]

BackendErrors == {Err404, Err429, Err500, Err429Msg404}

MaxRetriesError == [name |-> "Error", status |-> 0, msg |-> {"Max retries exceeded"}]

AbortError == [name |-> "AbortError", status |-> 0, msg |-> {}]

NetworkError == [name |-> "TypeError", status |-> 0, msg |-> {"Failed to fetch"}]

OpenRouterStatusError == [name |-> "Error", status |-> 0, msg |-> {"OpenRouter"}]

KeyMissingError == [name |-> "Error", status |-> 0, msg |-> {"OpenRouter", "Key not found"}]

UndefinedTypeError == [name |-> "TypeError", status |-> 0, msg |-> {"toLowerCase"}]

RouterError == [name |-> "Error", status |-> 0, msg |-> {"router"}]

MemoryError == [name |-> "Error", status |-> 0, msg |-> {"memory"}]

InstantError == [name |-> "Error", status |-> 0, msg |-> {"Instant mode service unavailable."}]

\* error.status === 404 || error.status === 400 || message includes '404',
\* 'not found' or 'Requested entity was not found'
isModelUnavailable(e) ==
    \/ e.status = 404
    \/ e.status = 400
    \/ "404" \in e.msg
    \/ "not found" \in e.msg

isQuotaError(e) ==
    \/ e.status = 429
    \/ "429" \in e.msg
    \/ "quota" \in e.msg

\* ------------------------------------------------------------ retry policy

\* A linear backoff in place of the exponential one.
BackoffLinear(a) == (a + 1) * 2000 + 1000

\* Math.pow(2, attempt) * 2000 + 1000
BackoffDelay(a) == (2 ^ a) * 2000 + 1000

\* The loop index is not advanced.
NextAttemptStuck(a) == a

\* The for loop of generateContentStreamWithRetry: attempt++ and attempt <= retries.
NextAttempt(a) == a + 1

AttemptAllowed(a) == a <= retries

\* if (!params.model) params.model = 'gemini-2.5-flash'
ParamsModel(m) == IF m = "" THEN FallbackModel ELSE m

\* The mutation under which one params object serves every call of the loop.
CallParamsShared(m, previous) == IF previous = "" THEN ParamsModel(m) ELSE previous

\* generateContentStreamWithRetry(ai, { model, contents, config }, ...): each
\* call gets a new object built from `model` (lines 355-359); `previous` is
\* what the call before left in its own object.
CallParams(m, previous) == ParamsModel(m)

\* The catch block of one attempt: what the policy does with error e raised by
\* attempt a on model m.
RetryDecision(e, a, m) ==
    IF isModelUnavailable(e)
    THEN IF m = FallbackModel
         THEN [kind |-> "throw", model |-> m]
         ELSE [kind |-> "continue", model |-> FallbackModel]
    ELSE IF isQuotaError(e) /\ a < retries
         THEN [kind |-> "wait", model |-> m]
         ELSE [kind |-> "throw", model |-> m]

\* `(Model ${params.model} unavailable. Falling back to Gemini 2.5 Flash...)`
FallbackNotice(m) == <<"(Model ", m, " unavailable. Falling back to Gemini 2.5 Flash...)">>

\* `(Rate limit hit. Retrying in ${Math.round(delay/1000)}s...)`
RateLimitNotice(d) == <<"(Rate limit hit. Retrying in ", d \div 1000, "s...)">>

\* The catch block of one attempt: the message it passes to onRetry (lines 71
\* and 88), <<>> when it passes none.
RetryNotice(e, a, m) ==
    IF isModelUnavailable(e)
    THEN FallbackNotice(m)
    ELSE IF isQuotaError(e) /\ a < retries
         THEN RateLimitNotice(BackoffDelay(a))
         ELSE <<>>

\* ------------------------------------------------------------ tag routing

\* A match is enough, whatever its capture group holds.
CapturedAlways(m) == m.found

\* `xMatch && xMatch[1]`: the tag matched and its capture group is not empty.
Captured(m) == m.found /\ m.inner # <<>>

\* Lines 484-505: the tag checks after the batch search did not take over.
\* nSearch is searchMatches.length.  Each match is computed once and then
\* tested in the order of lines 492-505.
TagRoute(buf, nSearch, fallbackCtx) ==
    LET go(a, p) == [kind |-> "continue", action |-> a, prompt |-> p]
        route(deepMatch, searchAll, imageMatch, projectMatch, canvasMatch, studyMatch) ==
            IF Captured(deepMatch)
              THEN go("DEEP_SEARCH", deepMatch.inner)
            ELSE IF nSearch = 1 /\ fallbackCtx = <<>>
              THEN go("SEARCH", searchAll[1])
            ELSE IF Captured(imageMatch)
              THEN go("IMAGE", imageMatch.inner)
            ELSE IF Captured(projectMatch)
              THEN go("PROJECT", projectMatch.inner)
            ELSE IF Captured(canvasMatch)
              THEN go("CANVAS", canvasMatch.inner)
            ELSE IF Captured(studyMatch)
              THEN go("STUDY", studyMatch.inner)
            ELSE [kind |-> "return", action |-> "", prompt |-> <<>>]
    IN  CHOOSE d \in
            {route(deepMatch, searchAll, imageMatch, projectMatch,
                   IF canvas1.found THEN canvas1
                   ELSE IF canvas2.found THEN canvas2 ELSE canvas3,
                   studyMatch) :
                deepMatch \in {Match(buf, "<DEEP>", "</DEEP>")},
                searchAll \in {MatchAll(buf, "<SEARCH>", "</SEARCH>")},
                imageMatch \in {Match(buf, "<IMAGE>", "</IMAGE>")},
                projectMatch \in {Match(buf, "<PROJECT>", "</PROJECT>")},
                canvas1 \in {Match(buf, "<CANVAS_TRIGGER>", "</CANVAS_TRIGGER>")},
                canvas2 \in {Match(buf, "<CANVAS_TRIGGER>", "</CANVASTRIGGER>")},
                canvas3 \in {Match(buf, "<CANVAS>", "</CANVAS>")},
                studyMatch \in {Match(buf, "<STUDY>", "</STUDY>")}} : TRUE

NoRoute == [kind |-> "none", action |-> "", prompt |-> <<>>]

\* ------------------------------------------------------------ segments

\* A well-formed tag with its inner text; a plain run has no tags.
Unit(open, inner, close) == [open |-> open, inner |-> inner, close |-> close]

PlainUnit == Unit("", <<"text">>, "")

Units ==
    {Unit("<SEARCH>", <<"foo">>, "</SEARCH>"),
     Unit("<SEARCH>", <<"bar">>, "</SEARCH>"),
     Unit("<SEARCH>", <<" ", "baz", " ">>, "</SEARCH>"),
     Unit("<SEARCH>", <<" ">>, "</SEARCH>"),
     Unit("<SEARCH>", <<>>, "</SEARCH>"),
     Unit("<DEEP>", <<"why">>, "</DEEP>"),
     Unit("<DEEP>", <<>>, "</DEEP>"),
     Unit("<IMAGE>", <<"a red fox">>, "</IMAGE>"),
     Unit("<IMAGE>", <<>>, "</IMAGE>"),
     Unit("<PROJECT>", <<"p">>, "</PROJECT>"),
     Unit("<CANVAS_TRIGGER>", <<"c1">>, "</CANVAS_TRIGGER>"),
     Unit("<CANVAS_TRIGGER>", <<>>, "</CANVAS_TRIGGER>"),
     Unit("<CANVAS>", <<"c3">>, "</CANVAS>"),
     Unit("<STUDY>", <<"s">>, "</STUDY>"),
     PlainUnit}

\* The text of a sequence of units.
RECURSIVE Render(_)
Render(us) ==
    IF us = <<>> THEN <<>>
    ELSE (IF Head(us).open = "" THEN Head(us).inner
          ELSE <<Head(us).open>> \o Head(us).inner \o <<Head(us).close>>)
         \o Render(Tail(us))

Segments == UNION {[1..n -> Units] : n \in 0..MaxUnits}

\* ------------------------------------------------------------ results

\* getUserFriendlyError(error)
getUserFriendlyError(e) == <<"friendly", e.name>>

\* The catch clause of runAutonomousAgent (lines 519-526).
Catch(e, final) ==
    IF e.name = "AbortError"
    THEN [kind |-> "stopped",
          text |-> IF final = <<>> THEN Placeholder ELSE final,
          citations |-> <<>>]
    ELSE [kind |-> "error",
          text |-> <<"An error occurred:">> \o
                   (IF "OpenRouter" \in e.msg THEN <<"OpenRouter">>
                    ELSE getUserFriendlyError(e)),
          citations |-> <<>>]

\* The result without the metadata payload.
ReturnWithoutCitations(final, meta) == [kind |-> "ok", text |-> final, citations |-> <<>>]

\* return { messages: [{ ..., text: finalResponseText, ...metadataPayload }] }
Return(final, meta) == [kind |-> "ok", text |-> final, citations |-> meta]

NoResult == [kind |-> "none", text |-> <<>>, citations |-> <<>>]

\* ------------------------------------------------------------ backends

Chunk(t, g) == [text |-> t, grounding |-> g]

Ground1 == [uri |-> "g1", title |-> "G1"]

Ground2 == [uri |-> "g2", title |-> "G2"]

PlainResponse ==
    <<Chunk(<<"hi">>, <<Ground1>>), Chunk(<<>>, <<Ground2>>), Chunk(<<"there">>, <<>>)>>

ImageSegment == <<"<IMAGE>", "a red fox", "</IMAGE>">>

ImageResponse == <<Chunk(ImageSegment, <<>>)>>

\* Two queries in one delta.
SearchSegment ==
    <<"<SEARCH>", "foo", "</SEARCH>", "<SEARCH>", " ", "bar", "</SEARCH>">>

DeepSegment == <<"<DEEP>", "why", "</DEEP>">>

\* The queries, then a DEEP tag in a later delta.
SearchResponse == <<Chunk(SearchSegment, <<>>), Chunk(DeepSegment, <<>>)>>

EmptySearchResponse == <<Chunk(<<"<SEARCH>", " ", "</SEARCH>">>, <<>>)>>

\* What a backend may stream in answer to one request.
Responses == {PlainResponse, ImageResponse, SearchResponse, EmptySearchResponse}

SearchResponses == {SearchResponse, EmptySearchResponse}

RECURSIVE ResponseText(_)
ResponseText(r) ==
    IF r = <<>> THEN <<>> ELSE Head(r).text \o ResponseText(Tail(r))

RouterAnswers == {"SIMPLE", "SEARCH"}

Input(mode, m, k, pd, p) ==
    [thinkingMode |-> mode, model |-> m, key |-> k, preferredDeep |-> pd, prompt |-> p]

\* The invocations explored: every thinking mode, every branch of the model
\* resolution, prompts with and without a search keyword.
Inputs ==
    {Input("instant", "", TRUE, "", <<"hello">>),
     Input("normal", "", FALSE, "", <<"hello">>),
     Input("normal", "gemini-3-pro-preview", TRUE, "", <<"latest news">>),
     Input("normal", "openai/gpt-4o", TRUE, "", <<"latest news">>),
     Input("normal", "openai/gpt-4o", TRUE, "", <<"hello">>),
     Input("normal", "openai/gpt-4o", FALSE, "", <<"hello">>),
     Input("normal", "perplexity/sonar", TRUE, "", <<"latest news">>),
     Input("think", "openai/gpt-4o", TRUE, "", <<"hello">>),
     Input("deep", "", TRUE, "", <<"hello">>),
     Input("deep", "", TRUE, "gemini-1.5-pro", <<"hello">>),
     Input("deep", "", FALSE, "openai/gpt-4o", <<"hello">>)}

\* The invocations of the liveness check: one for each way through the set-up
\* (instant mode, native backend, alternate backend with its key, alternate
\* backend without a key after a pre-loop search).
FairInputs ==
    {Input("instant", "", TRUE, "", <<"hello">>),
     Input("normal", "gemini-3-pro-preview", TRUE, "", <<"latest news">>),
     Input("normal", "openai/gpt-4o", TRUE, "", <<"hello">>),
     Input("deep", "", FALSE, "openai/gpt-4o", <<"latest news">>)}

\* ------------------------------------------------------------ content fetch

\* The text of a fetched page is a sequence of runs: n characters of
\* whitespace (ws) or n characters of anything else.
Run(ws, n) == [ws |-> ws, n |-> n]

\* content.length
RECURSIVE Length(_)
Length(c) == IF c = <<>> THEN 0 ELSE Head(c).n + Length(Tail(c))

\* content.trim()
TrimRuns(c) ==
    LET keep == {i \in 1..Len(c) : ~c[i].ws}
    IN  IF keep = {} THEN <<>> ELSE SubSeq(c, SetMin(keep), SetMax(keep))

\* content.slice(0, n)
RECURSIVE Slice(_, _)
Slice(c, n) ==
    IF c = <<>> \/ n = 0 THEN <<>>
    ELSE IF Head(c).n <= n THEN <<Head(c)>> \o Slice(Tail(c), n - Head(c).n)
    ELSE <<Run(Head(c).ws, n)>>

\* Any fetched text passes.
AnyContent(c) == c # <<>>

\* r.content && r.content.trim().length > 50
Substantial(c) == c # <<>> /\ Length(TrimRuns(c)) > MinContent

\* What fetchPageContentWithJina resolves with: "" when the fetch failed; 60
\* blanks; 50 characters; 45 characters between blanks; two words of 25
\* characters 5 blanks apart; 80 characters; 80 characters after 14990 blanks.
PageTexts ==
    {<<>>,
     <<Run(TRUE, 60)>>,
     <<Run(FALSE, 50)>>,
     <<Run(TRUE, 10), Run(FALSE, 45), Run(TRUE, 10)>>,
     <<Run(FALSE, 25), Run(TRUE, 5), Run(FALSE, 25)>>,
     <<Run(FALSE, 80)>>,
     <<Run(TRUE, 14990), Run(FALSE, 80)>>}

\* The k-th result of a search: title, url and snippet, no content.
Hit(k) == [title |-> <<"t", k>>, url |-> <<"u", k>>, snippet |-> <<"s", k>>]

\* No cap: every result is fetched and returned.
TopAll(rs, lim) == rs

\* results.slice(0, limit)
Top(rs, lim) == SubSeq(rs, 1, IF Len(rs) < lim THEN Len(rs) ELSE lim)

\* { ...r, content: content.slice(0, 15000) }
WithContent(r, c) ==
    [title |-> r.title, url |-> r.url, snippet |-> r.snippet,
     content |-> Slice(c, ContentCap)]

\* The then-callback of fetchPromise: the fulfilled values whose content
\* passes the test, in the order of `top`.  texts[k] is what the fetch of
\* top[k] resolved with.
RECURSIVE Filtered(_, _, _)
Filtered(top, texts, k) ==
    IF k > Len(top) THEN <<>>
    ELSE LET r == WithContent(top[k], texts[k])
         IN  (IF Substantial(r.content) THEN <<r>> ELSE <<>>)
                 \o Filtered(top, texts, k + 1)

\* What a search resolves with when it finds results: data.slice(0,
\* effectiveLimit) of the endpoint, or the topics of the fallback.
HitLists == {<<>>, <<Hit(1)>>, <<Hit(1), Hit(2)>>}

\* Every value fetchContentsForResults(rs, lim) can resolve with: `top` after
\* the timeout (some page fetch is pending then), or the filtered pages for
\* some texts of the pages.
FetchReturns(rs, lim) ==
    LET top == Top(rs, lim)
    IN  (IF top = <<>> THEN {} ELSE {top})
           \cup {Filtered(top, t, 1) : t \in [1..Len(top) -> PageTexts]}

\* The join resolves with the first mapper that settles.
PromiseAny(ms) == \E i \in 1..Len(ms) : ms[i].pc = "settled"

\* await Promise.all(queries.map(async q => ...)): every mapper has settled.
PromiseAll(ms) == \A i \in 1..Len(ms) : ms[i].pc = "settled"

\* ------------------------------------------------------------ SSE reader

\* A response body is a sequence of tokens: "\n", the prefix "data: ", the
\* whitespace run " " (a carriage return), and pieces of a payload.  The
\* payloads are {a} and {b} (a chunk object whose choices[0].delta.content is
\* a or b), {} (a chunk object without content) and [DONE]; a payload cut
\* short ("{a" alone) is not JSON.

\* buffer.split('\n')
RECURSIVE SplitLines(_)
SplitLines(s) ==
    LET nl == {i \in 1..Len(s) : s[i] = "\n"}
    IN  IF nl = {} THEN <<s>>
        ELSE <<SubSeq(s, 1, SetMin(nl) - 1)>>
                 \o SplitLines(SubSeq(s, SetMin(nl) + 1, Len(s)))

\* The fragment after the last newline is thrown away.
CarryDropped(parts) == <<>>

\* buffer = lines.pop() || ""
Carry(parts) == parts[Len(parts)]

\* The lines left in `lines` after lines.pop().
CompleteLines(s) ==
    LET parts == SplitLines(s) IN SubSeq(parts, 1, Len(parts) - 1)

\* trimmed.startsWith("data: ")
StartsWithData(trimmed) == trimmed # <<>> /\ trimmed[1] = "data: "

\* The literal is parsed as any other payload.
DoneIgnored(dataStr) == FALSE

\* dataStr === "[DONE]"
IsDone(dataStr) == dataStr = <<"[DONE]">>

\* JSON.parse(dataStr) and json.choices?.[0]?.delta?.content; ok is FALSE when
\* JSON.parse throws.
JsonContent(dataStr) ==
    IF dataStr = <<"{a", "}">> THEN [ok |-> TRUE, content |-> <<"a">>]
    ELSE IF dataStr = <<"{b", "}">> THEN [ok |-> TRUE, content |-> <<"b">>]
    ELSE IF dataStr = <<"{", "}">> THEN [ok |-> TRUE, content |-> <<>>]
    ELSE [ok |-> FALSE, content |-> <<>>]

\* The error of JSON.parse leaves the read loop.
ParseErrorEscapes == FALSE

\* try { ... } catch (e) { console.warn(...) }
ParseErrorCaught == TRUE

\* for (const line of lines) { ... } of lines 140-154, with the deltas given to
\* onChunk so far in `out`.
RECURSIVE ForLines(_, _)
ForLines(lines, out) ==
    IF lines = <<>> THEN [delivered |-> out, returned |-> FALSE, threw |-> FALSE]
    ELSE LET trimmed == Trim(Head(lines))
             dataStr == Tail(trimmed)
             json == JsonContent(dataStr)
         IN  IF ~StartsWithData(trimmed) THEN ForLines(Tail(lines), out)
             ELSE IF IsDone(dataStr)
               THEN [delivered |-> out, returned |-> TRUE, threw |-> FALSE]
             ELSE IF ~json.ok
               THEN IF ParseErrorCaught
                    THEN ForLines(Tail(lines), out)
                    ELSE [delivered |-> out, returned |-> FALSE, threw |-> TRUE]
             ELSE IF json.content # <<>>
               THEN ForLines(Tail(lines), Append(out, json.content))
             ELSE ForLines(Tail(lines), out)

\* The lines a body is made of, without their newline.
LineKinds ==
    {<<"data: ", "{a", "}">>,
     <<"data: ", "{b", "}", " ">>,
     <<"data: ", "{", "}">>,
     <<"data: ", "{a">>,
     <<"data: ", "[DONE]">>,
     <<>>}

\* What a body ends with after its last newline.
Tails == {<<>>, <<"data: ", "{b", "}">>}

BodyOf(ls, tail) ==
    Flatten([i \in 1..Len(ls) |-> ls[i] \o <<"\n">>]) \o tail

Bodies ==
    {BodyOf(ls, tail) :
        ls \in UNION {[1..n -> LineKinds] : n \in 0..MaxLines}, tail \in Tails}

\* ------------------------------------------------------------ state

VARIABLES
    thinkingMode,          \* input.thinkingMode
    model,                 \* the model after lines 198-227
    isNative,
    openRouterKey,         \* profile.openrouter_api_key is set
    prompt,                \* input.prompt
    aborted,               \* signal.aborted
    pc,                    \* the suspension point the invocation is at
    loopCount,
    currentAction,
    currentPrompt,
    finalResponseText,
    generatedThisLoop,
    groundingMetadata,     \* metadataPayload.groundingMetadata (undefined is <<>>)
    fallbackSearchContext,
    stream,                \* the chunks the open stream has yet to deliver
    openStreams,           \* model streams opened and not yet ended or closed
    attempt,               \* generateContentStreamWithRetry: the loop index
    paramsModel,           \* params.model
    delay,                 \* the delay of the last backoff sleep
    lastError,             \* the error of the last backend attempt
    raised,                \* the error generateContentStreamWithRetry threw
    result,                \* the AgentExecutionResult returned
    caught,                \* the error a catch clause of the invocation received
    waits,                 \* backoff sleeps of the current retry call (saturating)
    streamsStarted,        \* generation calls issued by the invocation
    opened,                \* the responses of the streams opened, in order
    preSearch,             \* the pre-loop external search, if it ran
    searchTurns,           \* responses with a SEARCH tag given so far
    batches,               \* parallelResults of the batch searches run, in order
    segment,               \* the parser on its own: the units of its text
    parserContext,         \* the parser on its own: fallbackSearchContext
    parsed,                \* the parser on its own: what it extracted and decided
    cancelPhase,           \* where the token was aborted: stream read, backoff sleep, other
    textAtCancel,          \* finalResponseText when the token was aborted
    sinkOut,               \* what the last step passed to onStreamChunk
    body,                  \* the SSE reader on its own: the response body
    readPos,               \* the SSE reader on its own: tokens read off the body
    buffer,                \* generateOpenRouterStream: buffer
    delivered,             \* the deltas given to onChunk, in order
    readerPc,              \* idle, read, returned ([DONE]), ended, thrown
    carried,               \* a read started with a fragment in the buffer
    results,               \* fetchContentsForResults on its own: results
    limit,                 \* fetchContentsForResults on its own: limit
    texts,                 \* what the page fetches of `top` resolved with so far
    fetchPc,               \* idle, race, returned
    fetchReturn,           \* the value fetchContentsForResults resolved with
    timedOut,              \* the timeout promise won the race
    batchQueries,          \* a search batch on its own: queries
    mappers,               \* the state of the mapper of each query
    settleOrder,           \* the queries in the order their mappers settled
    batchPc,               \* idle, running, joined
    batchResult,           \* parallelResults
    sent,                  \* the current user turn of each generation request, in order
    lastParams,            \* params.model as the last generateContentStreamWithRetry call left it
    memRows,               \* saveMemory on its own: the rows of one (user, layer, key)
    memCalls,              \* the saveMemory calls on that key and where each one is
    memDone                \* the calls that returned, in the order they returned

cfgVars == <<thinkingMode, model, isNative, openRouterKey, prompt>>

loopVars == <<loopCount, currentAction, currentPrompt>>

textVars == <<finalResponseText, generatedThisLoop, groundingMetadata, opened>>

retryVars == <<attempt, paramsModel, delay, lastError, raised, waits>>

cancelVars == <<aborted, cancelPhase, textAtCancel>>

requestVars == <<streamsStarted, sent, lastParams>>

parserVars == <<segment, parserContext, parsed>>

agentVars == <<cfgVars, loopVars, textVars, retryVars, cancelVars, pc,
               fallbackSearchContext, stream, openStreams, result, caught, requestVars,
               preSearch, searchTurns, batches, sinkOut>>

readerVars == <<body, readPos, buffer, delivered, readerPc, carried>>

fetchVars == <<results, limit, texts, fetchPc, fetchReturn, timedOut>>

batchVars == <<batchQueries, mappers, settleOrder, batchPc, batchResult>>

memoryVars == <<memRows, memCalls, memDone>>

sideVars == <<parserVars, readerVars, fetchVars, batchVars, memoryVars>>

vars == <<agentVars, sideVars>>

modelSupportsSearch == isNative \/ IncludesPerplexity(model)

\* The state of an invocation with input `in` as it enters runAutonomousAgent.
Start(in) ==
       LET mode == in.thinkingMode
           requested == in.model
           hasKey == in.key
           p == in.prompt
           r == ResolveModel(mode, requested, hasKey, in.preferredDeep)
       IN  /\ thinkingMode = mode
           /\ model = (IF mode = "instant" THEN requested ELSE r.model)
           /\ isNative = (IF mode = "instant" THEN isGoogleModel(requested) ELSE r.isNative)
           /\ openRouterKey = hasKey
           /\ prompt = p
           /\ aborted = FALSE
           /\ pc = "entry"
           /\ loopCount = 0
           /\ currentAction = ""
           /\ currentPrompt = p
           /\ finalResponseText = <<>>
           /\ generatedThisLoop = <<>>
           /\ groundingMetadata = <<>>
           /\ fallbackSearchContext = <<>>
           /\ stream = <<>>
           /\ openStreams = 0
           /\ attempt = 0
           /\ paramsModel = ""
           /\ delay = 0
           /\ lastError = NoError
           /\ raised = NoError
           /\ result = NoResult
           /\ caught = NoError
           /\ waits = 0
           /\ streamsStarted = 0
           /\ sent = <<>>
           /\ lastParams = ""
           /\ opened = <<>>
           /\ preSearch = [ran |-> FALSE, pages |-> <<>>]
           /\ searchTurns = 0
           /\ batches = <<>>
           /\ cancelPhase = "none"
           /\ textAtCancel = <<>>
           /\ sinkOut = <<>>

NotParsed == [done |-> FALSE, queries |-> <<>>, route |-> NoRoute]

\* No body is being read.
ReaderIdle ==
    /\ body = <<>>
    /\ readPos = 0
    /\ buffer = <<>>
    /\ delivered = <<>>
    /\ readerPc = "idle"
    /\ carried = FALSE

\* fetchContentsForResults is not running.
FetchIdle ==
    /\ results = <<>>
    /\ limit = 0
    /\ texts = <<>>
    /\ fetchPc = "idle"
    /\ fetchReturn = <<>>
    /\ timedOut = FALSE

\* No saveMemory call was made.
MemoryIdle ==
    /\ memRows = <<>>
    /\ memCalls = <<>>
    /\ memDone = <<>>

\* No search batch is running on its own.
BatchIdle ==
    /\ batchQueries = <<>>
    /\ mappers = <<>>
    /\ settleOrder = <<>>
    /\ batchPc = "idle"
    /\ batchResult = <<>>

\* The page fetch of a result has not resolved yet.
Pending == <<Run(TRUE, 0)>>

\* The invocation the parser and the reader on their own are set in.
Bystander == Input("normal", "", FALSE, "", <<"hello">>)

Init ==
    /\ \E in \in Inputs : Start(in)
    /\ segment = <<>>
    /\ parserContext = <<>>
    /\ parsed = NotParsed
    /\ ReaderIdle
    /\ FetchIdle
    /\ BatchIdle
    /\ MemoryIdle

\* The parser on its own: a segment made of units, with or without the search
\* context of an earlier batch; no invocation runs.
ParserInit ==
    /\ Start(Bystander)
    /\ segment \in Segments
    /\ parserContext \in {<<>>, <<"ctx">>}
    /\ parsed = NotParsed
    /\ ReaderIdle
    /\ FetchIdle
    /\ BatchIdle
    /\ MemoryIdle

\* The SSE reader on its own: generateOpenRouterStream has its response and
\* reads a body; no invocation runs.
ReaderInit ==
    /\ Start(Bystander)
    /\ segment = <<>>
    /\ parserContext = <<>>
    /\ parsed = NotParsed
    /\ body \in Bodies
    /\ readPos = 0
    /\ buffer = <<>>
    /\ delivered = <<>>
    /\ readerPc = "read"
    /\ carried = FALSE
    /\ FetchIdle
    /\ BatchIdle
    /\ MemoryIdle

\* fetchContentsForResults on its own, called with n results and a limit:
\* the page fetches of `top` and the timeout are pending.
FetchInit ==
    /\ Start(Bystander)
    /\ segment = <<>>
    /\ parserContext = <<>>
    /\ parsed = NotParsed
    /\ ReaderIdle
    /\ \E n \in 0..MaxResults : results = [k \in 1..n |-> Hit(k)]
    /\ limit \in 1..MaxLimit
    /\ texts = [k \in 1..Len(Top(results, limit)) |-> Pending]
    /\ fetchPc = "race"
    /\ fetchReturn = <<>>
    /\ timedOut = FALSE
    /\ BatchIdle
    /\ MemoryIdle

\* A mapper that has just called runMcpWebSearch.
MapperStart == [pc |-> "mcp", results |-> <<>>, pages |-> <<>>, failed |-> FALSE]

\* A search batch on its own (lines 443-453): the mappers of all the queries
\* have been started and none has settled.
BatchInit ==
    /\ Start(Bystander)
    /\ segment = <<>>
    /\ parserContext = <<>>
    /\ parsed = NotParsed
    /\ ReaderIdle
    /\ FetchIdle
    /\ MemoryIdle
    /\ \E n \in 1..MaxQueries : batchQueries = [k \in 1..n |-> <<"q", k>>]
    /\ mappers = [k \in 1..Len(batchQueries) |-> MapperStart]
    /\ settleOrder = <<>>
    /\ batchPc = "running"
    /\ batchResult = <<>>

\* The catch clause at the top boundary receives e.
Fail(e) ==
    /\ caught' = e
    /\ result' = Catch(e, finalResponseText)
    /\ pc' = "done"

\* ------------------------------------------------------------ cancellation

Abort ==
    /\ ~aborted
    /\ pc \notin {"done", "thrown"}
    /\ aborted' = TRUE
    /\ cancelPhase' = (IF pc \in {"stream", "sse"} THEN "stream"
                       ELSE IF pc = "wait" THEN "sleep" ELSE "other")
    /\ textAtCancel' = finalResponseText
    /\ UNCHANGED <<cfgVars, sideVars, loopVars, textVars, retryVars, pc, fallbackSearchContext,
                   stream, openStreams, result, caught, requestVars, preSearch, batches, searchTurns>>
    /\ sinkOut' = <<>>

\* ------------------------------------------------------------ instant mode

\* generateFreeCompletion resolves: with the whole answer, or, once the token
\* is aborted, with the part received so far.
InstantReturn ==
    /\ pc = "entry"
    /\ thinkingMode = "instant"
    /\ \E r \in Responses, n \in 0..Len(PlainResponse) :
          /\ n <= Len(r)
          /\ aborted \/ n = Len(r)
          /\ result' = Return(ResponseText(SubSeq(r, 1, n)), <<>>)
          /\ sinkOut' = ResponseText(SubSeq(r, 1, n))
    /\ pc' = "done"
    /\ UNCHANGED <<cfgVars, sideVars, loopVars, textVars, retryVars, cancelVars,
                   fallbackSearchContext, stream, openStreams, caught, requestVars, preSearch, batches, searchTurns>>

\* generateFreeCompletion rejects: the instant branch rethrows a new Error.
InstantThrow ==
    /\ pc = "entry"
    /\ thinkingMode = "instant"
    /\ \E e \in {NetworkError, AbortError} :
          /\ e = AbortError => aborted
          /\ caught' = e
    /\ result' = [kind |-> "thrown", text |-> <<"Instant mode service unavailable.">>, citations |-> <<>>]
    /\ pc' = "thrown"
    /\ UNCHANGED <<cfgVars, sideVars, loopVars, textVars, retryVars, cancelVars,
                   fallbackSearchContext, stream, openStreams, requestVars, preSearch, batches,
                   searchTurns>>
    /\ sinkOut' = <<>>

\* ------------------------------------------------------------ set-up

RouterOk ==
    /\ pc = "entry"
    /\ thinkingMode # "instant"
    /\ \E a \in RouterAnswers : currentAction' = a
    /\ pc' = "presearch"
    /\ UNCHANGED <<cfgVars, sideVars, loopCount, currentPrompt, textVars, retryVars, cancelVars,
                   fallbackSearchContext, stream, openStreams, result, caught, requestVars,
                   preSearch, batches, searchTurns>>
    /\ sinkOut' = <<>>

RouterFail ==
    /\ pc = "entry"
    /\ thinkingMode # "instant"
    /\ Fail(RouterError)
    /\ UNCHANGED <<cfgVars, sideVars, loopVars, textVars, retryVars, cancelVars,
                   fallbackSearchContext, stream, openStreams, requestVars, preSearch, batches, searchTurns>>
    /\ sinkOut' = <<>>

\* Lines 244-273: the search tag is prepended and the search runs.
PreSearchRun ==
    /\ pc = "presearch"
    /\ shouldUseExternalSearch(prompt, modelSupportsSearch, FALSE)
    /\ \E pages \in PageOutcomes :
          /\ groundingMetadata' = ToMeta(pages)
          /\ preSearch' = [ran |-> TRUE, pages |-> pages]
    /\ finalResponseText' = finalResponseText \o <<"<SEARCH>">> \o prompt \o <<"</SEARCH>">>
    /\ sinkOut' = <<"<SEARCH>">> \o prompt \o <<"</SEARCH>">>
    /\ pc' = "memory"
    /\ UNCHANGED <<cfgVars, sideVars, loopVars, generatedThisLoop, opened,
                   retryVars, cancelVars, fallbackSearchContext, stream, openStreams, result, caught,
                   requestVars, searchTurns, batches>>

PreSearchSkip ==
    /\ pc = "presearch"
    /\ ~shouldUseExternalSearch(prompt, modelSupportsSearch, FALSE)
    /\ pc' = "memory"
    /\ UNCHANGED <<cfgVars, sideVars, loopVars, textVars, retryVars, cancelVars,
                   fallbackSearchContext, stream, openStreams, result, caught, requestVars,
                   preSearch, batches, searchTurns>>
    /\ sinkOut' = <<>>

MemoryOk ==
    /\ pc = "memory"
    /\ currentPrompt' = prompt
    /\ loopCount' = 0
    /\ pc' = "loop"
    /\ UNCHANGED <<cfgVars, sideVars, currentAction, textVars, retryVars, cancelVars,
                   fallbackSearchContext, stream, openStreams, result, caught, requestVars,
                   preSearch, batches, searchTurns>>
    /\ sinkOut' = <<>>

MemoryFail ==
    /\ pc = "memory"
    /\ Fail(MemoryError)
    /\ UNCHANGED <<cfgVars, sideVars, loopVars, textVars, retryVars, cancelVars,
                   fallbackSearchContext, stream, openStreams, requestVars, preSearch, batches, searchTurns>>
    /\ sinkOut' = <<>>

\* ------------------------------------------------------------ loop head

\* The mutation under which every request carries the prompt of the call.
UserTurnOriginal(original, current) == original

\* The current user turn of a request: userParts = [{ text: currentPrompt }]
\* (line 323) and userContent (line 401).
UserTurn(original, current) == current

\* The loop test with <= for <: one iteration too many.
LoopGuardInclusive(n) == n <= MAX_LOOPS

\* while (loopCount < MAX_LOOPS)
LoopGuard(n) == n < MAX_LOOPS

\* The token is never looked at.
AbortNeverPolled(a) == FALSE

\* if (signal?.aborted) ...
AbortPolled(a) == a

\* The iteration starts whatever the token says.
EntryNeverPolled(a) == FALSE

\* if (signal?.aborted) break;  (line 303, the first statement of an iteration)
AbortedAtEntry(a) == a

\* The loop ends (bound reached, or aborted at the iteration boundary): line 517.
LoopExit ==
    /\ pc = "loop"
    /\ ~LoopGuard(loopCount) \/ AbortedAtEntry(aborted)
    /\ result' = Return(finalResponseText, groundingMetadata)
    /\ pc' = "done"
    /\ UNCHANGED <<cfgVars, sideVars, loopVars, textVars, retryVars, cancelVars,
                   fallbackSearchContext, stream, openStreams, caught, requestVars, preSearch, batches, searchTurns>>
    /\ sinkOut' = <<>>

\* An iteration starts on the native backend: generateContentStreamWithRetry is called.
LoopEnterNative ==
    /\ pc = "loop"
    /\ LoopGuard(loopCount) /\ ~AbortedAtEntry(aborted)
    /\ isNative
    /\ loopCount' = loopCount + 1
    /\ generatedThisLoop' = <<>>
    /\ attempt' = 0
    /\ paramsModel' = CallParams(model, lastParams)
    /\ lastParams' = lastParams
    /\ waits' = 0
    /\ lastError' = NoError
    /\ streamsStarted' = streamsStarted + 1
    /\ sent' = Append(sent, UserTurn(prompt, currentPrompt))
    /\ pc' = "open"
    /\ UNCHANGED <<cfgVars, sideVars, currentAction, currentPrompt, finalResponseText,
                   groundingMetadata, opened, delay, raised,
                   cancelVars, fallbackSearchContext, stream, openStreams, result, caught, preSearch, batches, searchTurns>>
    /\ sinkOut' = <<>>

\* An iteration starts on the alternate backend: generateOpenRouterStream is called.
LoopEnterAlternate ==
    /\ pc = "loop"
    /\ LoopGuard(loopCount) /\ ~AbortedAtEntry(aborted)
    /\ ~isNative /\ openRouterKey
    /\ loopCount' = loopCount + 1
    /\ generatedThisLoop' = <<>>
    /\ streamsStarted' = streamsStarted + 1
    /\ sent' = Append(sent, UserTurn(prompt, currentPrompt))
    /\ lastParams' = lastParams
    /\ pc' = "fetch"
    /\ UNCHANGED <<cfgVars, sideVars, currentAction, currentPrompt, finalResponseText,
                   groundingMetadata, opened, retryVars,
                   cancelVars, fallbackSearchContext, stream, openStreams, result, caught, preSearch, batches, searchTurns>>
    /\ sinkOut' = <<>>

\* if (!openRouterKey) throw new Error("OpenRouter API Key not found.")
LoopKeyMissing ==
    /\ pc = "loop"
    /\ LoopGuard(loopCount) /\ ~AbortedAtEntry(aborted)
    /\ ~isNative /\ ~openRouterKey
    /\ loopCount' = loopCount + 1
    /\ generatedThisLoop' = <<>>
    /\ Fail(KeyMissingError)
    /\ UNCHANGED <<cfgVars, sideVars, currentAction, currentPrompt, finalResponseText,
                   groundingMetadata, opened, retryVars,
                   cancelVars, fallbackSearchContext, stream, openStreams, requestVars, preSearch, batches, searchTurns>>
    /\ sinkOut' = <<>>

\* ------------------------------------------------------------ native backend

\* generateContentStreamWithRetry throws e: the top boundary catches it.
RetryThrow(e) ==
    /\ raised' = e
    /\ Fail(e)

\* ai.models.generateContentStream(params) resolves with a stream.
OpenSuccess ==
    /\ pc = "open"
    /\ \E r \in Responses :
          /\ r \in SearchResponses => searchTurns < MaxSearchTurns
          /\ searchTurns' = IF r \in SearchResponses THEN searchTurns + 1 ELSE searchTurns
          /\ stream' = r
          /\ openStreams' = openStreams + 1
          /\ opened' = Append(opened, r)
    /\ attempt' = 0
    /\ lastParams' = paramsModel
    /\ paramsModel' = ""
    /\ delay' = 0
    /\ waits' = 0
    /\ lastError' = NoError
    /\ pc' = "stream"
    /\ UNCHANGED <<cfgVars, sideVars, loopVars, finalResponseText, generatedThisLoop,
                   groundingMetadata, raised, cancelVars,
                   fallbackSearchContext, result, caught, streamsStarted, sent, preSearch, batches>>
    /\ sinkOut' = <<>>

\* ai.models.generateContentStream(params) rejects with e: the catch block of
\* the attempt, then the for loop's attempt++ and test.
OpenFail ==
    /\ pc = "open"
    /\ \E e \in BackendErrors :
          LET d == RetryDecision(e, attempt, paramsModel)
          IN  /\ lastError' = e
              /\ sinkOut' = RetryNotice(e, attempt, paramsModel)
              /\ CASE d.kind = "throw" ->
                        /\ RetryThrow(e)
                        /\ UNCHANGED <<attempt, paramsModel, delay, waits>>
                   [] d.kind = "wait" ->
                        /\ delay' = BackoffDelay(attempt)
                        /\ waits' = IF waits < WaitCap THEN waits + 1 ELSE waits
                        /\ pc' = "wait"
                        /\ UNCHANGED <<attempt, paramsModel, raised, result, caught>>
                   [] d.kind = "continue" ->
                        /\ paramsModel' = d.model
                        /\ attempt' = NextAttempt(attempt)
                        /\ IF AttemptAllowed(NextAttempt(attempt))
                           THEN pc' = "open" /\ UNCHANGED <<raised, result, caught>>
                           ELSE RetryThrow(MaxRetriesError)
                        /\ UNCHANGED <<delay, waits>>
    /\ UNCHANGED <<cfgVars, sideVars, loopVars, textVars, cancelVars, fallbackSearchContext,
                   stream, openStreams, requestVars, preSearch, batches, searchTurns>>

\* A sleep that rejects with AbortError once the token is aborted.
BackoffInterruptible ==
    /\ pc = "wait"
    /\ IF aborted
       THEN attempt' = attempt /\ RetryThrow(AbortError)
       ELSE /\ attempt' = NextAttempt(attempt)
            /\ pc' = "open"
            /\ UNCHANGED <<raised, result, caught>>
    /\ UNCHANGED <<cfgVars, sideVars, loopVars, textVars, paramsModel, delay, lastError, waits,
                   cancelVars, fallbackSearchContext, stream, openStreams, requestVars, preSearch, batches, searchTurns>>
    /\ sinkOut' = <<>>

\* await new Promise(resolve => setTimeout(resolve, delay)): the backoff sleep
\* runs to its end; then attempt++ and the loop test.
BackoffDone ==
    /\ pc = "wait"
    /\ attempt' = NextAttempt(attempt)
    /\ IF AttemptAllowed(NextAttempt(attempt))
       THEN pc' = "open" /\ UNCHANGED <<raised, result, caught>>
       ELSE RetryThrow(MaxRetriesError)
    /\ UNCHANGED <<cfgVars, sideVars, loopVars, textVars, paramsModel, delay, lastError, waits,
                   cancelVars, fallbackSearchContext, stream, openStreams, requestVars, preSearch, batches, searchTurns>>
    /\ sinkOut' = <<>>

\* The stream stays open after the loop that reads it is left.
StreamLeaked(n) == n

\* The stream ends: the generator is exhausted, `break` leaves `for await`
\* (which closes the generator), the body ends, or the read throws.
StreamClosed(n) == n - 1

\* One turn of `for await (const chunk of generator)` (lines 361-388).
NativeChunk ==
    /\ pc = "stream"
    /\ stream # <<>>
    /\ LET c == Head(stream)
           buf == generatedThisLoop \o c.text
       IN  IF AbortPolled(aborted)
              THEN /\ pc' = "tags"
                   /\ stream' = <<>>
                   /\ openStreams' = StreamClosed(openStreams)
                   /\ sinkOut' = <<>>
                   /\ UNCHANGED <<finalResponseText, generatedThisLoop,
                                  groundingMetadata>>
              ELSE IF c.text = <<>>
              THEN /\ stream' = Tail(stream)
                   /\ pc' = "stream"
                   /\ openStreams' = openStreams
                   /\ sinkOut' = <<>>
                   /\ UNCHANGED <<finalResponseText, generatedThisLoop,
                                  groundingMetadata>>
              ELSE /\ generatedThisLoop' = buf
                   /\ finalResponseText' = finalResponseText \o c.text
                   /\ sinkOut' = c.text
                   /\ groundingMetadata' = Push(groundingMetadata, c.grounding)
                   /\ IF HasClosingTag(buf)
                      THEN /\ pc' = "tags" /\ stream' = <<>>
                           /\ openStreams' = StreamClosed(openStreams)
                      ELSE /\ pc' = "stream" /\ stream' = Tail(stream)
                           /\ openStreams' = openStreams
    /\ UNCHANGED <<cfgVars, sideVars, loopVars, opened, retryVars, cancelVars,
                   fallbackSearchContext, result, caught, requestVars, preSearch, batches,
                   searchTurns>>

\* The generator is exhausted.
NativeEnd ==
    /\ pc = "stream"
    /\ stream = <<>>
    /\ pc' = "tags"
    /\ UNCHANGED <<cfgVars, sideVars, loopVars, textVars, retryVars, cancelVars,
                   fallbackSearchContext, stream, result, caught, requestVars,
                   preSearch, batches, searchTurns>>
    /\ openStreams' = StreamClosed(openStreams)
    /\ sinkOut' = <<>>

\* The generator rejects: the transport failed in mid-stream.
NativeStreamError ==
    /\ pc = "stream"
    /\ Fail(NetworkError)
    /\ stream' = <<>>
    /\ openStreams' = StreamClosed(openStreams)
    /\ UNCHANGED <<cfgVars, sideVars, loopVars, textVars, retryVars, cancelVars,
                   fallbackSearchContext, requestVars, preSearch, batches, searchTurns>>
    /\ sinkOut' = <<>>

\* ------------------------------------------------------------ alternate backend

\* fetch resolves with an ok response (lines 105-129).
FetchOk ==
    /\ pc = "fetch"
    /\ ~aborted
    /\ \E r \in Responses :
          /\ r \in SearchResponses => searchTurns < MaxSearchTurns
          /\ searchTurns' = IF r \in SearchResponses THEN searchTurns + 1 ELSE searchTurns
          /\ stream' = r
          /\ openStreams' = openStreams + 1
          /\ opened' = Append(opened, r)
    /\ pc' = "sse"
    /\ UNCHANGED <<cfgVars, sideVars, loopVars, finalResponseText, generatedThisLoop,
                   groundingMetadata, retryVars, cancelVars,
                   fallbackSearchContext, result, caught, requestVars, preSearch, batches>>
    /\ sinkOut' = <<>>

\* fetch rejects, is aborted, or answers with a non-2xx status.
FetchFail ==
    /\ pc = "fetch"
    /\ \E e \in {NetworkError, OpenRouterStatusError, AbortError} :
          /\ (e = AbortError) = aborted
          /\ Fail(e)
    /\ UNCHANGED <<cfgVars, sideVars, loopVars, textVars, retryVars, cancelVars,
                   fallbackSearchContext, stream, openStreams, requestVars, preSearch, batches, searchTurns>>
    /\ sinkOut' = <<>>

\* The callback takes every delta whatever the token says.
CallbackNeverPolled(a) == FALSE

\* if (signal?.aborted) return;  (line 430, the first statement of the callback)
AbortedInCallback(a) == a

\* reader.read() gives a `data: ` line with a delta: the onChunk callback of
\* lines 429-434.
SseDelta ==
    /\ pc = "sse"
    /\ stream # <<>>
    /\ LET c == Head(stream)
       IN  /\ stream' = Tail(stream)
           /\ openStreams' = openStreams
           /\ IF c.text = <<>> \/ AbortedInCallback(aborted)
              THEN /\ sinkOut' = <<>>
                   /\ UNCHANGED <<finalResponseText, generatedThisLoop>>
              ELSE /\ generatedThisLoop' = generatedThisLoop \o c.text
                   /\ finalResponseText' = finalResponseText \o c.text
                   /\ sinkOut' = c.text
    /\ UNCHANGED <<cfgVars, sideVars, loopVars, groundingMetadata, opened, retryVars,
                   cancelVars, pc, fallbackSearchContext, result, caught,
                   requestVars, preSearch, batches, searchTurns>>

\* The body ends, or `data: [DONE]` is read.
SseEnd ==
    /\ pc = "sse"
    /\ stream = <<>>
    /\ pc' = "tags"
    /\ UNCHANGED <<cfgVars, sideVars, loopVars, textVars, retryVars, cancelVars,
                   fallbackSearchContext, stream, result, caught, requestVars,
                   preSearch, batches, searchTurns>>
    /\ openStreams' = StreamClosed(openStreams)
    /\ sinkOut' = <<>>

\* reader.read() rejects: with AbortError once the token is aborted, with a
\* transport error otherwise.
SseFail ==
    /\ pc = "sse"
    /\ \E e \in {NetworkError, AbortError} :
          /\ (e = AbortError) = aborted
          /\ Fail(e)
    /\ stream' = <<>>
    /\ openStreams' = StreamClosed(openStreams)
    /\ UNCHANGED <<cfgVars, sideVars, loopVars, textVars, retryVars, cancelVars,
                   fallbackSearchContext, requestVars, preSearch, batches, searchTurns>>
    /\ sinkOut' = <<>>

\* ------------------------------------------------------------ tag routing

\* Lines 484-512 applied to the segment.
FallThrough(nSearch, ctx) ==
    \E d \in {TagRoute(generatedThisLoop, nSearch, ctx)} :
        IF d.kind = "continue"
        THEN /\ currentAction' = d.action
             /\ currentPrompt' = d.prompt
             /\ pc' = "loop"
             /\ sinkOut' = <<>>
             /\ UNCHANGED <<finalResponseText, result>>
        ELSE /\ finalResponseText' =
                   IF Trim(finalResponseText) = <<>> /\ ctx # <<>>
                   THEN ctx ELSE finalResponseText
             /\ sinkOut' =
                   IF Trim(finalResponseText) = <<>> /\ ctx # <<>>
                   THEN ctx ELSE <<>>
             /\ result' = Return(finalResponseText', groundingMetadata)
             /\ pc' = "done"
             /\ UNCHANGED <<currentAction, currentPrompt>>

\* The segment has no SEARCH tag, or the model has built-in search.
TagsPlain ==
    /\ pc = "tags"
    /\ \E searchMatches \in {MatchAll(generatedThisLoop, "<SEARCH>", "</SEARCH>")} :
       \E queries \in {Queries(searchMatches)} :
       \E first \in {IF queries = <<>> THEN Undefined ELSE queries[1]} :
           /\ \/ searchMatches = <<>>
              \/ /\ ~shouldUseExternalSearchThrows(first, modelSupportsSearch)
                 /\ ~shouldUseExternalSearch(first, modelSupportsSearch, TRUE)
           /\ FallThrough(Len(searchMatches), fallbackSearchContext)
    /\ UNCHANGED <<cfgVars, sideVars, loopCount, generatedThisLoop,
                   groundingMetadata, opened, retryVars, cancelVars,
                   fallbackSearchContext, stream, openStreams, caught, requestVars,
                   preSearch, batches, searchTurns>>

\* queries[0] is undefined and the model has no built-in search: toLowerCase throws.
TagsTypeError ==
    /\ pc = "tags"
    /\ \E searchMatches \in {MatchAll(generatedThisLoop, "<SEARCH>", "</SEARCH>")} :
       \E queries \in {Queries(searchMatches)} :
           /\ searchMatches # <<>>
           /\ queries = <<>>
           /\ shouldUseExternalSearchThrows(Undefined, modelSupportsSearch)
    /\ Fail(UndefinedTypeError)
    /\ UNCHANGED <<cfgVars, sideVars, loopVars, textVars, retryVars, cancelVars,
                   fallbackSearchContext, stream, openStreams, requestVars, preSearch, batches,
                   searchTurns>>
    /\ sinkOut' = <<>>

\* What the queries of a batch return: Promise.all over runMcpWebSearch and
\* fetchContentsForResults (lines 443-453).
ParallelResults(queries, outcome) ==
    [i \in 1..Len(queries) |-> [query |-> queries[i], pages |-> outcome[i]]]

\* The batch search cycle (lines 442-481), then the remaining tag checks when no
\* query was valid.
TagsBatch ==
    /\ pc = "tags"
    /\ \E searchMatches \in {MatchAll(generatedThisLoop, "<SEARCH>", "</SEARCH>")} :
       \E queries \in {Queries(searchMatches)} :
           /\ searchMatches # <<>>
           /\ queries # <<>>
           /\ shouldUseExternalSearch(queries[1], modelSupportsSearch, TRUE)
           /\ \E outcome \in [1..Len(queries) -> PageOutcomes] :
              \E parallelResults \in {ParallelResults(queries, outcome)} :
              \E validResults \in {ValidResults(parallelResults)} :
              \E aggregatedContext \in {AggregatedContext(validResults)} :
                 /\ batches' = Append(batches, parallelResults)
                 /\ IF validResults # <<>>
                    THEN /\ groundingMetadata' =
                               Push(groundingMetadata, AllNewMeta(validResults))
                         /\ fallbackSearchContext' = aggregatedContext
                         /\ currentPrompt' =
                               SynthesisPrompt(prompt, queries, aggregatedContext)
                         /\ currentAction' = "SIMPLE"
                         /\ pc' = "loop"
                         /\ sinkOut' = <<>>
                         /\ UNCHANGED <<finalResponseText, result>>
                    ELSE /\ FallThrough(Len(searchMatches), fallbackSearchContext)
                         /\ UNCHANGED <<groundingMetadata, fallbackSearchContext>>
    /\ UNCHANGED <<cfgVars, sideVars, loopCount, generatedThisLoop, opened,
                   retryVars, cancelVars, stream, openStreams, caught, requestVars, preSearch,
                   searchTurns>>

\* ------------------------------------------------------------ specification

Next ==
    \/ Abort
    \/ InstantReturn
    \/ InstantThrow
    \/ RouterOk
    \/ RouterFail
    \/ PreSearchRun
    \/ PreSearchSkip
    \/ MemoryOk
    \/ MemoryFail
    \/ LoopExit
    \/ LoopEnterNative
    \/ LoopEnterAlternate
    \/ LoopKeyMissing
    \/ OpenSuccess
    \/ OpenFail
    \/ BackoffDone
    \/ NativeChunk
    \/ NativeEnd
    \/ NativeStreamError
    \/ FetchOk
    \/ FetchFail
    \/ SseDelta
    \/ SseEnd
    \/ SseFail
    \/ TagsPlain
    \/ TagsTypeError
    \/ TagsBatch

Spec == Init /\ [][Next]_vars

\* Lines 437-440 and 484-505 applied to the text of `segment`.
Parse ==
    /\ ~parsed.done
    /\ LET buf == Render(segment)
           searchMatches == MatchAll(buf, "<SEARCH>", "</SEARCH>")
       IN  parsed' = [done |-> TRUE,
                      queries |-> Queries(searchMatches),
                      route |-> TagRoute(buf, Len(searchMatches), parserContext)]
    /\ UNCHANGED <<agentVars, memoryVars, segment, parserContext, readerVars, fetchVars, batchVars>>

ParserNext == Parse

ParserSpec == ParserInit /\ [][ParserNext]_vars

\* reader.read() gives the next bytes of the body, however many: lines 133-155.
ReaderRead ==
    /\ readerPc = "read"
    /\ readPos < Len(body)
    /\ \E n \in 1..(Len(body) - readPos) :
       \E value \in {SubSeq(body, readPos + 1, readPos + n)} :
       \E parts \in {SplitLines(buffer \o value)} :
       \E lines \in {SubSeq(parts, 1, Len(parts) - 1)} :
       \E r \in {ForLines(lines, delivered)} :
          /\ readPos' = readPos + n
          /\ buffer' = Carry(parts)
          /\ delivered' = r.delivered
          /\ readerPc' = IF r.threw THEN "thrown"
                         ELSE IF r.returned THEN "returned" ELSE "read"
    /\ carried' = (carried \/ buffer # <<>>)
    /\ UNCHANGED <<agentVars, memoryVars, parserVars, fetchVars, batchVars, body>>

\* reader.read() gives done: `if (done) break;`, whatever the buffer holds.
ReaderEnd ==
    /\ readerPc = "read"
    /\ readPos = Len(body)
    /\ readerPc' = "ended"
    /\ UNCHANGED <<agentVars, memoryVars, parserVars, fetchVars, batchVars, body, readPos, buffer, delivered, carried>>

ReaderNext == ReaderRead \/ ReaderEnd

ReaderSpec == ReaderInit /\ [][ReaderNext]_vars

\* fetchPageContentWithJina resolves for one result of `top`: with the text of
\* the page, or with "" when the fetch failed.
PageSettles ==
    /\ fetchPc = "race"
    /\ \E k \in 1..Len(texts), c \in PageTexts :
          /\ texts[k] = Pending
          /\ texts' = [texts EXCEPT ![k] = c]
    /\ UNCHANGED <<agentVars, memoryVars, parserVars, readerVars, batchVars, results, limit, fetchPc,
                   fetchReturn, timedOut>>

\* Every page fetch has resolved: fetchPromise wins the race.
FetchWins ==
    /\ fetchPc = "race"
    /\ \A k \in 1..Len(texts) : texts[k] # Pending
    /\ fetchReturn' = Filtered(Top(results, limit), texts, 1)
    /\ fetchPc' = "returned"
    /\ UNCHANGED <<agentVars, memoryVars, parserVars, readerVars, batchVars, results, limit, texts, timedOut>>

\* SEARCH_TIMEOUT_MS pass with a page fetch pending: timeoutPromise rejects,
\* the catch clause returns `top`.
FetchTimeout ==
    /\ fetchPc = "race"
    /\ \E k \in 1..Len(texts) : texts[k] = Pending
    /\ fetchReturn' = Top(results, limit)
    /\ timedOut' = TRUE
    /\ fetchPc' = "returned"
    /\ UNCHANGED <<agentVars, memoryVars, parserVars, readerVars, batchVars, results, limit, texts>>

FetchNext == PageSettles \/ FetchWins \/ FetchTimeout

FetchSpec == FetchInit /\ [][FetchNext]_vars

\* The mapper of query i goes to state m; the rest of the batch stays.
MapperStep(i, m) ==
    /\ batchPc = "running"
    /\ mappers' = [mappers EXCEPT ![i] = m]
    /\ UNCHANGED <<agentVars, memoryVars, parserVars, readerVars, fetchVars, batchQueries,
                   batchPc, batchResult>>

\* The search endpoint answers with an array (lines 54-67).
McpOk ==
    \E i \in 1..Len(mappers), rs \in HitLists :
        /\ mappers[i].pc = "mcp"
        /\ MapperStep(i, [mappers[i] EXCEPT !.pc = "contents", !.results = rs])
        /\ UNCHANGED settleOrder

\* The endpoint fails, answers late or answers something else: the catch
\* clause of line 70 starts the fallback search.
McpFail ==
    \E i \in 1..Len(mappers) :
        /\ mappers[i].pc = "mcp"
        /\ MapperStep(i, [mappers[i] EXCEPT !.pc = "ddg"])
        /\ UNCHANGED settleOrder

\* The fallback search answers (lines 72-107).
DdgOk ==
    \E i \in 1..Len(mappers), rs \in HitLists :
        /\ mappers[i].pc = "ddg"
        /\ MapperStep(i, [mappers[i] EXCEPT !.pc = "contents", !.results = rs])
        /\ UNCHANGED settleOrder

\* The fallback search fails too: `return [];` (line 111).
DdgFail ==
    \E i \in 1..Len(mappers) :
        /\ mappers[i].pc = "ddg"
        /\ MapperStep(i, [mappers[i] EXCEPT !.pc = "contents", !.results = <<>>,
                                            !.failed = TRUE])
        /\ UNCHANGED settleOrder

\* fetchContentsForResults(results, 20) resolves and the mapper returns
\* { query: q, pages }.
ContentsReturn ==
    \E i \in 1..Len(mappers) :
        /\ mappers[i].pc = "contents"
        /\ \E pages \in FetchReturns(mappers[i].results, SearchLimit) :
              MapperStep(i, [mappers[i] EXCEPT !.pc = "settled", !.pages = pages])
        /\ settleOrder' = Append(settleOrder, i)

\* Promise.all resolves with the values of the mappers in the order of queries.
Join ==
    /\ batchPc = "running"
    /\ PromiseAll(mappers)
    /\ batchResult' = ParallelResults(batchQueries,
                          [i \in 1..Len(mappers) |-> mappers[i].pages])
    /\ batchPc' = "joined"
    /\ UNCHANGED <<agentVars, memoryVars, parserVars, readerVars, fetchVars, batchQueries,
                   mappers, settleOrder>>

BatchNext == McpOk \/ McpFail \/ DdgOk \/ DdgFail \/ ContentsReturn \/ Join

BatchSpec == BatchInit /\ [][BatchNext]_vars

\* ------------------------------------------------------------ saveMemory

\* saveMemory on its own (src/unnamed/part_001:690-740), for the calls made
\* with one user, one layer and one key: the table holds no memory for the key,
\* or one.
MemoryInit ==
    /\ Start(Bystander)
    /\ segment = <<>>
    /\ parserContext = <<>>
    /\ parsed = NotParsed
    /\ ReaderIdle
    /\ FetchIdle
    /\ BatchIdle
    /\ memRows \in {<<>>, <<[id |-> 1, content |-> "v0"]>>}
    /\ memCalls = <<>>
    /\ memDone = <<>>

MemoryValues == {"v1", "v2"}

\* saveMemory(supabase, userId, layer, key, value) is called: the select of
\* lines 694-700 is sent.
SaveCall ==
    /\ Len(memCalls) < MaxCalls
    /\ \E value \in MemoryValues :
          memCalls' = Append(memCalls, [pc |-> "select", value |-> value, existing |-> <<>>])
    /\ UNCHANGED <<agentVars, parserVars, readerVars, fetchVars, batchVars, memRows, memDone>>

\* The select resolves: at most one of the rows of the key (limit(1), no order).
SaveSelect ==
    /\ \E c \in 1..Len(memCalls) :
          /\ memCalls[c].pc = "select"
          /\ \E existing \in (IF memRows = <<>> THEN {<<>>}
                                ELSE {<<memRows[i].id>> : i \in 1..Len(memRows)}) :
                memCalls' = [memCalls EXCEPT ![c].pc = "write", ![c].existing = existing]
    /\ UNCHANGED <<agentVars, parserVars, readerVars, fetchVars, batchVars, memRows, memDone>>

\* The select or the write answers with an error: handleSupabaseError throws.
SaveThrow ==
    /\ \E c \in 1..Len(memCalls) :
          /\ memCalls[c].pc \in {"select", "write"}
          /\ memCalls' = [memCalls EXCEPT ![c].pc = "thrown"]
    /\ UNCHANGED <<agentVars, parserVars, readerVars, fetchVars, batchVars, memRows, memDone>>

\* existing.length > 0: update(memoryPayload).eq('id', existing[0].id) (lines 716-724).
SaveUpdate ==
    /\ \E c \in 1..Len(memCalls) :
          /\ memCalls[c].pc = "write"
          /\ memCalls[c].existing # <<>>
          /\ memRows' = [i \in 1..Len(memRows) |->
                            IF memRows[i].id = memCalls[c].existing[1]
                            THEN [memRows[i] EXCEPT !.content = memCalls[c].value]
                            ELSE memRows[i]]
          /\ memCalls' = [memCalls EXCEPT ![c].pc = "returned"]
          /\ memDone' = Append(memDone, c)
    /\ UNCHANGED <<agentVars, parserVars, readerVars, fetchVars, batchVars>>

\* No row was found: insert(memoryPayload) (lines 725-732).
SaveInsert ==
    /\ \E c \in 1..Len(memCalls) :
          /\ memCalls[c].pc = "write"
          /\ memCalls[c].existing = <<>>
          /\ memRows' = Append(memRows, [id |-> Len(memRows) + 1, content |-> memCalls[c].value])
          /\ memCalls' = [memCalls EXCEPT ![c].pc = "returned"]
          /\ memDone' = Append(memDone, c)
    /\ UNCHANGED <<agentVars, parserVars, readerVars, fetchVars, batchVars>>

MemoryNext == SaveCall \/ SaveSelect \/ SaveThrow \/ SaveUpdate \/ SaveInsert

MemorySpec == MemoryInit /\ [][MemoryNext]_vars

FairInit ==
    /\ \E in \in FairInputs : Start(in)
    /\ segment = <<>>
    /\ parserContext = <<>>
    /\ parsed = NotParsed
    /\ ReaderIdle
    /\ FetchIdle
    /\ BatchIdle
    /\ MemoryIdle

\* Every network call settles: a pending step is eventually taken.
FairSpec == FairInit /\ [][Next]_vars /\ WF_vars(Next)

TypeOK ==
    /\ pc \in {"entry", "presearch", "memory", "loop", "open", "wait", "stream",
               "fetch", "sse", "tags", "done", "thrown"}
    /\ loopCount \in 0..(MAX_LOOPS + 1)
    /\ aborted \in BOOLEAN

\* ------------------------------------------------------------ properties

Resolved == pc \in {"done", "thrown"}

InLoopMode == thinkingMode # "instant"

AllTags == OpeningTags \cup ClosingTags \cup {"<CANVASTRIGGER>"}

RECURSIVE OpenedText(_)
OpenedText(rs) ==
    IF rs = <<>> THEN <<>> ELSE ResponseText(Head(rs)) \o OpenedText(Tail(rs))

\* The grounding chunks carried by the deltas of r that have text.
RECURSIVE TextGrounding(_)
TextGrounding(r) ==
    IF r = <<>> THEN <<>>
    ELSE (IF Head(r).text # <<>> THEN Head(r).grounding ELSE <<>>)
         \o TextGrounding(Tail(r))

RECURSIVE OpenedGrounding(_)
OpenedGrounding(rs) ==
    IF rs = <<>> THEN <<>> ELSE TextGrounding(Head(rs)) \o OpenedGrounding(Tail(rs))

NoTagStreamed == \A i \in 1..Len(OpenedText(opened)) : OpenedText(opened)[i] \notin AllTags

\* A step in which a backend attempt of the retry policy fails.
AttemptFails == pc = "open" /\ aborted' = aborted /\ lastError' # NoError

\* C1: the loop iteration count never exceeds 6, so at most 6 stream
\* generations are started in one invocation.
C1_IterationBound == loopCount <= MAX_LOOPS /\ streamsStarted <= MAX_LOOPS

C1_Witness == pc = "done" /\ loopCount = MAX_LOOPS /\ streamsStarted = MAX_LOOPS

\* C2: provided every network call settles, every invocation eventually
\* resolves: it returns a result or throws.
C2_Resolves == <>Resolved

C2_Witness == pc = "done" /\ raised = Err429 /\ waits = retries /\ loopCount > 1

\* C3 as stated: with no control tag in the generated text the loop ends after
\* the first iteration, the text is exactly the streamed text and the citation
\* list is empty.
C3_Original ==
    (pc = "done" /\ InLoopMode /\ result.kind = "ok" /\ ~aborted /\ NoTagStreamed)
    => /\ loopCount = 1
       /\ result.text = OpenedText(opened)
       /\ result.citations = <<>>

\* C3 amended: with no control tag in the generated text (and no cancellation
\* or failure) the loop ends after the first iteration; the text is the streamed
\* text, after the <SEARCH>prompt</SEARCH> tag when the pre-loop external search
\* ran; the citations are the pre-loop search's pages followed by the grounding
\* chunks the native stream carried.
C3_NoTagResult ==
    (pc = "done" /\ InLoopMode /\ result.kind = "ok" /\ ~aborted /\ NoTagStreamed)
    => LET pre == ~modelSupportsSearch /\ prompt \in KeywordTexts
       IN  /\ loopCount = 1
           /\ preSearch.ran = pre
           /\ result.text =
                 (IF pre THEN <<"<SEARCH>">> \o prompt \o <<"</SEARCH>">> ELSE <<>>)
                 \o OpenedText(opened)
           /\ result.citations =
                 ToMeta(preSearch.pages)
                 \o (IF isNative THEN OpenedGrounding(opened) ELSE <<>>)

C3_Witness ==
    /\ pc = "done" /\ result.kind = "ok" /\ ~aborted /\ NoTagStreamed
    /\ preSearch.ran /\ preSearch.pages # <<>>
    /\ opened = <<PlainResponse>>

\* C4 as stated: after an iteration whose segment is exactly
\* <IMAGE>a red fox</IMAGE> the action is IMAGE, the next prompt is "a red fox"
\* and the invocation goes on instead of returning.
C4_Original ==
    (/\ generatedThisLoop = ImageSegment
     /\ pc \in {"loop", "done"}
     /\ ~aborted
     /\ result.kind \notin {"error", "stopped"})
    => /\ currentAction = "IMAGE"
       /\ currentPrompt = <<"a red fox">>
       /\ pc = "loop"

\* C4 amended: after an iteration whose segment is exactly
\* <IMAGE>a red fox</IMAGE> the action is IMAGE and the next prompt is
\* "a red fox"; the tag check itself does not return, and the invocation
\* returns after that iteration only when it was the 6th or the token is aborted.
C4_ImageContinues ==
    (/\ generatedThisLoop = ImageSegment
     /\ pc \in {"loop", "done"}
     /\ result.kind \notin {"error", "stopped"})
    => /\ currentAction = "IMAGE"
       /\ currentPrompt = <<"a red fox">>
       /\ pc = "done" => /\ loopCount = MAX_LOOPS \/ aborted
                         /\ result = Return(finalResponseText, groundingMetadata)

C4_Witness ==
    /\ pc = "loop" /\ generatedThisLoop = ImageSegment /\ loopCount = 1
    /\ currentAction = "IMAGE" /\ currentPrompt = <<"a red fox">>

C6_CancelNeverFails ==
    (aborted /\ Resolved /\ caught \in {NoError, AbortError})
    => pc = "done" /\ result.kind \in {"ok", "stopped"}

\* C7: an attempt on a non-fallback model that fails model-unavailable is
\* followed, at any attempt index, by an attempt on gemini-2.5-flash; an attempt
\* on the fallback model that fails model-unavailable ends the call with that error.
C7_FallbackNext ==
    [][(AttemptFails /\ isModelUnavailable(lastError'))
       => IF paramsModel # FallbackModel
          THEN pc' = "open" /\ paramsModel' = FallbackModel
          ELSE pc' = "done" /\ raised' = lastError']_vars

\* C8: the backoff wait after a rate-limit failure on attempt a is
\* 2^a*2000+1000 ms: 3000, 5000 and 9000 ms for a = 0, 1, 2.
C8_BackoffDelays ==
    pc = "wait"
    => /\ attempt \in 0..2
       /\ attempt = 0 => delay = 3000
       /\ attempt = 1 => delay = 5000
       /\ attempt = 2 => delay = 9000

C8_Witness == pc = "wait" /\ attempt = 2 /\ delay = 9000 /\ lastError = Err429

\* C9: a rate-limit error on an attempt below the cap is followed by a wait
\* and a retry on the same model, one at the cap propagates, and one call
\* makes at most 3 backoff waits.
C9_RateLimit ==
    /\ [](waits <= retries)
    /\ [][(AttemptFails /\ isQuotaError(lastError'))
          => IF attempt < retries
             THEN pc' = "wait" /\ paramsModel' = paramsModel
             ELSE pc' = "done" /\ raised' = lastError']_vars

\* C10: the error generateContentStreamWithRetry raises is the unchanged
\* error of its last backend attempt.
C10_ErrorUnchanged == raised # NoError => raised = lastError

\* The inner texts of the SEARCH units of a segment, in order, trimmed, without
\* those that are empty or whitespace only.
RECURSIVE ExpectedQueries(_)
ExpectedQueries(us) ==
    IF us = <<>> THEN <<>>
    ELSE (IF Head(us).open = "<SEARCH>" /\ Trim(Head(us).inner) # <<>>
          THEN <<Trim(Head(us).inner)>> ELSE <<>>)
         \o ExpectedQueries(Tail(us))

FooBar ==
    <<Unit("<SEARCH>", <<"foo">>, "</SEARCH>"), Unit("<SEARCH>", <<"bar">>, "</SEARCH>")>>

\* C11: the queries extracted from a segment are the trimmed inner texts of
\* its <SEARCH>...</SEARCH> tags in order of appearance, the empty and
\* whitespace-only ones discarded; <SEARCH>foo</SEARCH><SEARCH>bar</SEARCH>
\* gives exactly foo, bar.
C11_QueryExtraction ==
    parsed.done
    => /\ parsed.queries = ExpectedQueries(segment)
       /\ \A k \in 1..Len(parsed.queries) :
             LET q == parsed.queries[k]
             IN  q # <<>> /\ q[1] \notin Whitespace /\ q[Len(q)] \notin Whitespace
       /\ segment = FooBar => parsed.queries = <<<<"foo">>, <<"bar">>>>

C11_Witness ==
    /\ parsed.done
    /\ segment = <<Unit("<SEARCH>", <<" ", "baz", " ">>, "</SEARCH>"),
                   Unit("<SEARCH>", <<" ">>, "</SEARCH>"),
                   Unit("<SEARCH>", <<"foo">>, "</SEARCH>")>>
    /\ parsed.queries = <<<<"baz">>, <<"foo">>>>

HasQueries(buf) == Queries(MatchAll(buf, "<SEARCH>", "</SEARCH>")) # <<>>

\* The batch search of the iteration has just run: the tag checks are over, the
\* segment holds a query and the model has no built-in search.
JustBatched ==
    /\ pc \in {"loop", "done"}
    /\ caught = NoError
    /\ ~modelSupportsSearch
    /\ HasQueries(generatedThisLoop)
    /\ batches # <<>>

LastBatch == batches[Len(batches)]

\* The queries of batch b that came back with at least one page.
WithPages(b) == {i \in 1..Len(b) : b[i].pages # <<>>}

\* The {uri, title} of every page of every query of the batches, in order.
RECURSIVE QueryMeta(_)
QueryMeta(b) ==
    IF b = <<>> THEN <<>> ELSE ToMeta(Head(b).pages) \o QueryMeta(Tail(b))

RECURSIVE BatchMeta(_)
BatchMeta(bs) ==
    IF bs = <<>> THEN <<>> ELSE QueryMeta(Head(bs)) \o BatchMeta(Tail(bs))

OneOfTwo(b) == Len(b) = 2 /\ Cardinality(WithPages(b)) = 1

\* C12 as stated: when one of the two queries of a batch returns pages and the
\* other none, the final citations are only that query's sources.
C12_Original ==
    (/\ pc = "done" /\ result.kind = "ok"
     /\ Len(batches) = 1 /\ OneOfTwo(batches[1]))
    => \E i \in WithPages(batches[1]) :
          result.citations = ToMeta(batches[1][i].pages)

\* C12 amended: when one of the two queries of a batch returns pages and the
\* other none, the batch proceeds with the search context of that query alone
\* and appends only that query's sources; the final citations are the pre-loop
\* search's pages followed by the sources of the queries that returned pages.
C12_OneValidQuery ==
    /\ (JustBatched /\ OneOfTwo(LastBatch))
       => \E i \in WithPages(LastBatch) :
             /\ fallbackSearchContext =
                   <<"=== WEB RESULTS FOR QUERY:">> \o LastBatch[i].query
                   \o PageText(LastBatch[i].pages)
             /\ groundingMetadata =
                   ToMeta(preSearch.pages) \o BatchMeta(SubSeq(batches, 1, Len(batches) - 1))
                   \o ToMeta(LastBatch[i].pages)
    /\ (pc = "done" /\ result.kind = "ok" /\ ~isNative)
       => result.citations = ToMeta(preSearch.pages) \o BatchMeta(batches)

C12_Witness ==
    /\ pc = "done" /\ result.kind = "ok"
    /\ Len(batches) = 1 /\ Len(batches[1]) = 2
    /\ batches[1][1].pages = <<>> /\ batches[1][2].pages = <<Page1, Page3>>
    /\ preSearch.pages = <<Page2>>
    /\ result.citations = ToMeta(<<Page2, Page1, Page3>>)

\* C13: every fatal error raised during an invocation is caught at the top
\* boundary and turned into a result with one user-facing message; the call
\* does not throw, in any thinking mode.
C13_ErrorsCaught ==
    (Resolved /\ caught \notin {NoError, AbortError})
    => /\ pc = "done"
       /\ result.kind = "error"
       /\ Head(result.text) = "An error occurred:"

\* C14: on either backend, once the iteration's buffer holds a closing control
\* tag no later delta of that stream is appended to the buffer or to the text
\* forwarded to the chunk sink.
C14_StopAtClosingTag ==
    [][(pc \in {"stream", "sse"} /\ HasClosingTag(generatedThisLoop))
       => /\ generatedThisLoop' = generatedThisLoop
          /\ finalResponseText' = finalResponseText]_vars

HasUnit(us, open) == \E i \in 1..Len(us) : us[i].open = open

FirstUnit(us, open) == us[SetMin({i \in 1..Len(us) : us[i].open = open})]

\* The first tag of that kind in the segment has a non-empty inner text.
Counts(us, open) == HasUnit(us, open) /\ FirstUnit(us, open).inner # <<>>

CanvasOpen(us) ==
    IF HasUnit(us, "<CANVAS_TRIGGER>") THEN "<CANVAS_TRIGGER>" ELSE "<CANVAS>"

Switch(us, action, open) ==
    [kind |-> "continue", action |-> action, prompt |-> FirstUnit(us, open).inner]

\* The priority of the claim with `wins` deciding whether a kind of tag takes part.
Priority(us, ctx, wins(_, _)) ==
    IF wins(us, "<DEEP>") THEN Switch(us, "DEEP_SEARCH", "<DEEP>")
    ELSE IF Cardinality({i \in 1..Len(us) : us[i].open = "<SEARCH>"}) = 1 /\ ctx = <<>>
      THEN Switch(us, "SEARCH", "<SEARCH>")
    ELSE IF wins(us, "<IMAGE>") THEN Switch(us, "IMAGE", "<IMAGE>")
    ELSE IF wins(us, "<PROJECT>") THEN Switch(us, "PROJECT", "<PROJECT>")
    ELSE IF wins(us, CanvasOpen(us)) THEN Switch(us, "CANVAS", CanvasOpen(us))
    ELSE IF wins(us, "<STUDY>") THEN Switch(us, "STUDY", "<STUDY>")
    ELSE [kind |-> "return", action |-> "", prompt |-> <<>>]

\* C15 as stated: a DEEP tag wins over everything; otherwise exactly one SEARCH
\* tag with no batch run switches to SEARCH; otherwise the first present of
\* IMAGE, PROJECT, CANVAS_TRIGGER/CANVAS, STUDY switches the action; the next
\* prompt is the inner text of the winning tag.
C15_Original ==
    (parsed.done /\ parserContext = <<>>)
    => parsed.route = Priority(segment, parserContext, HasUnit)

\* C15 amended: the same priority, where a DEEP, IMAGE, PROJECT, CANVAS or
\* STUDY tag takes part only if the first tag of its kind has a non-empty inner
\* text, the single SEARCH tag switches to SEARCH only while no earlier batch
\* left a search context, and the segment returns when no tag takes part.
C15_TagPriority ==
    parsed.done => parsed.route = Priority(segment, parserContext, Counts)

C15_Witness ==
    /\ parsed.done
    /\ segment = <<Unit("<DEEP>", <<>>, "</DEEP>"),
                   Unit("<STUDY>", <<"s">>, "</STUDY>"),
                   Unit("<IMAGE>", <<"a red fox">>, "</IMAGE>")>>
    /\ parsed.route = [kind |-> "continue", action |-> "IMAGE", prompt |-> <<"a red fox">>]

\* The state after a batch in which at least one query returned pages.
BatchSucceeded == JustBatched /\ WithPages(LastBatch) # {}

SynthesisSet ==
    /\ currentAction = "SIMPLE"
    /\ currentPrompt =
          SynthesisPrompt(prompt,
                          Queries(MatchAll(generatedThisLoop, "<SEARCH>", "</SEARCH>")),
                          fallbackSearchContext)
    /\ groundingMetadata = ToMeta(preSearch.pages) \o BatchMeta(batches)

\* C16 as stated: a batch with a valid query takes priority over every other
\* tag of the segment: the action is SIMPLE, the prompt is the synthesis
\* instruction, every page of every valid query is cited, and the loop continues.
C16_Original ==
    (BatchSucceeded /\ ~aborted) => SynthesisSet /\ pc = "loop"

\* C16 amended: a batch with a valid query takes priority over every other tag
\* of the segment: the action is SIMPLE, the prompt is the synthesis
\* instruction and every page of every valid query is cited; the invocation
\* goes on to another iteration unless that iteration was the 6th or the token
\* is aborted, and then it returns the accumulated text and citations.
C16_BatchPriority ==
    BatchSucceeded
    => /\ SynthesisSet
       /\ pc = "done" => /\ loopCount = MAX_LOOPS \/ aborted
                         /\ result = Return(finalResponseText, groundingMetadata)

C16_Witness ==
    /\ pc = "loop" /\ loopCount = 1 /\ ~aborted
    /\ generatedThisLoop = SearchSegment \o DeepSegment
    /\ LastBatch[1].pages = <<Page1, Page3>> /\ LastBatch[2].pages = <<Page1, Page3>>
    /\ currentAction = "SIMPLE"
    /\ groundingMetadata = ToMeta(<<Page1, Page3, Page1, Page3>>)

\* Some query of batch b returned a page whose content was fetched.
SomeContent(b) ==
    \E i \in 1..Len(b) : \E k \in 1..Len(b[i].pages) : b[i].pages[k].content # <<>>

\* A step in which a batch runs and goes on to the synthesis.
ToSynthesis ==
    /\ pc = "tags" /\ pc' = "loop"
    /\ batches' # batches
    /\ currentAction' = "SIMPLE"
    /\ currentPrompt' # <<>> /\ Head(currentPrompt') = "USER ORIGINALLY ASKED:"

\* C17: a batch goes on to the synthesis only if some query returned a page
\* with fetched content; pages without fetched content (after the content-fetch
\* timeout) never make it proceed.
C17_ValidNeedsContent ==
    [][ToSynthesis => SomeContent(batches'[Len(batches')])]_vars

\* The text left when every control tag is removed together with its inner text.
RECURSIVE StripTags(_)
StripTags(s) ==
    IF s = <<>> THEN <<>>
    ELSE IF Head(s) \in OpeningTags
         THEN LET closes == {k \in 2..Len(s) : s[k] \in ClosingTags}
              IN  IF closes = {} THEN <<>>
                  ELSE StripTags(SubSeq(s, SetMin(closes) + 1, Len(s)))
         ELSE <<Head(s)>> \o StripTags(Tail(s))

FellThrough ==
    LET n == Len(MatchAll(generatedThisLoop, "<SEARCH>", "</SEARCH>"))
        d == TagRoute(generatedThisLoop, n, fallbackSearchContext)
    IN  IF d.kind = "continue"
        THEN pc' = "loop" /\ currentAction' = d.action /\ currentPrompt' = d.prompt
        ELSE pc' = "done" /\ result'.kind = "ok"
             /\ UNCHANGED <<currentAction, currentPrompt>>

\* C19: a batch with no valid query (no query returned a page with fetched
\* content) leaves the citation list and the search context as they were, does
\* not set action or prompt, and the remaining tag checks of the segment decide.
C19_ZeroValidNoEffect ==
    [][(pc = "tags" /\ batches' # batches /\ ~SomeContent(batches'[Len(batches')]))
       => /\ groundingMetadata' = groundingMetadata
          /\ fallbackSearchContext' = fallbackSearchContext
          /\ FellThrough]_vars

\* The tag checks of an iteration are carried out.
TagsStep == pc = "tags" /\ pc' # "tags"

\* C20: on a native model neither the pre-loop search nor a batch search is
\* ever run; on an alternate-backend model without built-in search a segment
\* with at least one non-empty SEARCH tag always runs the batch search, on the
\* queries of the segment.
C20_SearchEligibility ==
    /\ [](isNative => ~preSearch.ran /\ batches = <<>>)
    /\ [][(TagsStep /\ ~modelSupportsSearch /\ HasQueries(generatedThisLoop))
          => /\ Len(batches') = Len(batches) + 1
             /\ [i \in 1..Len(batches'[Len(batches')]) |->
                    batches'[Len(batches')][i].query]
                = Queries(MatchAll(generatedThisLoop, "<SEARCH>", "</SEARCH>"))]_vars

C20_Witness ==
    /\ isNative /\ prompt \in KeywordTexts
    /\ pc = "done" /\ result.kind = "ok"
    /\ generatedThisLoop = SearchSegment
    /\ ~preSearch.ran /\ batches = <<>>

\* C23: the token is checked on entry to each iteration before any network
\* call: from an iteration boundary reached with the token aborted, the only
\* step is the exit of the loop; no stream is opened, no generation call and
\* no search batch is issued, and no further iteration is counted.
C23_EntryCancel ==
    [][(pc = "loop" /\ aborted)
       => /\ pc' = "done"
          /\ loopCount' = loopCount
          /\ streamsStarted' = streamsStarted
          /\ opened' = opened
          /\ batches' = batches
          /\ result' = Return(finalResponseText, groundingMetadata)]_vars

\* A batch with a valid query sent the loop to a second iteration; the token
\* was aborted by then and the iteration never started.
C23_Witness ==
    /\ pc = "done" /\ aborted /\ caught = NoError
    /\ loopCount = 1 /\ streamsStarted = 1 /\ Len(opened) = 1
    /\ Len(batches) = 1 /\ fallbackSearchContext # <<>>

\* C24: the token is polled inside the chunk-read loop of both backends: once
\* it is aborted, no step that reads the open stream appends to the iteration
\* buffer or to the final text, adds grounding, or passes anything to the sink.
C24_NoDeltaAfterAbort ==
    [][(aborted /\ pc \in {"stream", "sse"})
       => /\ generatedThisLoop' = generatedThisLoop
          /\ finalResponseText' = finalResponseText
          /\ groundingMetadata' = groundingMetadata
          /\ sinkOut' = <<>>]_vars

\* The alternate backend delivered "hi", the token was aborted, and the rest
\* of the body was read and dropped by the callback.
C24_Witness ==
    /\ pc = "sse" /\ aborted /\ ~isNative /\ cancelPhase = "stream"
    /\ opened = <<PlainResponse>> /\ stream = <<>>
    /\ generatedThisLoop = <<"hi">> /\ finalResponseText = textAtCancel

\* C25: a backoff sleep, once entered, runs to its end whatever the token
\* says: the only step of the invocation out of the sleep is the next attempt
\* (attempt + 1 on the same model, the same call still pending), and a token
\* aborted during the sleep changes nothing of the retry call.
C25_SleepCompletes ==
    [][pc = "wait"
       => \/ /\ pc' = "wait"
             /\ aborted'
             /\ <<attempt, paramsModel, delay, result, caught, raised>>'
                  = <<attempt, paramsModel, delay, result, caught, raised>>
          \/ /\ pc' = "open"
             /\ attempt' = attempt + 1
             /\ attempt' <= retries
             /\ <<paramsModel, delay, result, caught, raised, aborted>>'
                  = <<paramsModel, delay, result, caught, raised, aborted>>]_vars

\* The token was aborted during the first sleep (3000 ms) and the attempt
\* after the sleep is pending.
C25_Witness ==
    /\ pc = "open" /\ aborted /\ cancelPhase = "sleep"
    /\ attempt = 1 /\ delay = 3000 /\ waits = 1 /\ lastError = Err429

\* C26: on a model-unavailable failure the retry call passes the fallback
\* notice to its callback exactly when it switches to the fallback model and
\* retries; an attempt on the fallback model itself ends the call at once
\* with that error.
C26_NoticeOnSwitch ==
    [][(AttemptFails /\ isModelUnavailable(lastError'))
       => /\ (sinkOut' = FallbackNotice(paramsModel))
                <=> (paramsModel # FallbackModel /\ paramsModel' = FallbackModel
                     /\ pc' = "open")
          /\ paramsModel = FallbackModel
                => pc' = "done" /\ raised' = lastError']_vars

\* C30: at most one model stream is open at any point; a stream is opened
\* (and a generation call issued) only when the stream of the previous
\* iteration has ended, by its natural end, an early stop, a cancellation or
\* a failure; no search batch runs while a stream is open.
C30_OneStream ==
    [][/\ openStreams' \in {0, 1}
       /\ opened' # opened => openStreams = 0 /\ openStreams' = 1
       /\ streamsStarted' # streamsStarted => openStreams = 0
       /\ batches' # batches => openStreams = 0 /\ openStreams' = 0
       /\ preSearch' # preSearch => openStreams = 0 /\ openStreams' = 0]_vars

\* The first stream was read to its end, the batch ran, and the stream of the
\* second iteration is the only one open.
C30_Witness ==
    /\ pc = "sse" /\ openStreams = 1
    /\ Len(opened) = 2 /\ opened[1] = SearchResponse
    /\ Len(batches) = 1 /\ loopCount = 2

IsPrefix(s, t) == Len(s) <= Len(t) /\ s = SubSeq(t, 1, Len(s))

\* The lines of the body that end with a newline.
BodyLines == CompleteLines(body)

IsDataLine(l) == Trim(l) # <<>> /\ Head(Trim(l)) = "data: "

IsDoneLine(l) == IsDataLine(l) /\ Tail(Trim(l)) = <<"[DONE]">>

\* The delta a complete line carries: <<>> when it carries none.
LineDelta(l) ==
    IF IsDataLine(l) /\ ~IsDoneLine(l) THEN JsonContent(Tail(Trim(l))).content
    ELSE <<>>

\* The deltas of the lines ls, in order.
RECURSIVE DeltasOf(_)
DeltasOf(ls) ==
    IF ls = <<>> THEN <<>>
    ELSE (IF LineDelta(Head(ls)) = <<>> THEN <<>> ELSE <<LineDelta(Head(ls))>>)
             \o DeltasOf(Tail(ls))

\* The complete lines before the first `data: [DONE]` line.
BeforeDone ==
    LET dones == {i \in 1..Len(BodyLines) : IsDoneLine(BodyLines[i])}
    IN  IF dones = {} THEN BodyLines
        ELSE SubSeq(BodyLines, 1, SetMin(dones) - 1)

ReaderFinished == readerPc \in {"returned", "ended", "thrown"}

\* C27: `data: [DONE]` ends the stream: the deltas given to the callback are
\* at every point a prefix of, and at the end exactly, the deltas of the
\* complete `data: ` lines before the first [DONE] line, once each and in
\* order; nothing of a later line, of the same read or of a later one, is
\* given, and the reader returns exactly when the body holds such a line.
C27_DoneTerminates ==
    /\ IsPrefix(delivered, DeltasOf(BeforeDone))
    /\ ReaderFinished => delivered = DeltasOf(BeforeDone)
    /\ readerPc = "returned" => BeforeDone # BodyLines
    /\ readerPc = "ended" => BeforeDone = BodyLines

\* a, then [DONE], then b in a body read in more than one read: a alone.
C27_Witness ==
    /\ readerPc = "returned" /\ carried
    /\ body = BodyOf(<<<<"data: ", "{a", "}">>, <<"data: ", "[DONE]">>,
                       <<"data: ", "{b", "}", " ">>>>, <<>>)
    /\ readPos = Len(body)
    /\ delivered = <<<<"a">>>>

\* What the reader gives for the bytes s handed over in a single read.
InOneRead(s) == ForLines(CompleteLines(s), <<>>)

\* The part of the body read so far.
BodyRead == SubSeq(body, 1, readPos)

\* C28: what the reader gives does not depend on how the body is cut into
\* reads: after any reads covering the first readPos tokens, the deltas given,
\* and whether the reader returned, are those of a single read of these
\* tokens, and the buffer holds the fragment after their last newline.
C28_ChunkingIndependent ==
    /\ delivered = InOneRead(BodyRead).delivered
    /\ (readerPc = "returned") = InOneRead(BodyRead).returned
    /\ buffer = Carry(SplitLines(BodyRead))
    /\ readerPc = "ended" => delivered = InOneRead(body).delivered

\* The line `data: {a}` arrived in three reads and its delta was given once.
C28_Witness ==
    /\ readerPc = "ended" /\ carried
    /\ body = BodyOf(<<<<"data: ", "{a", "}">>>>, <<>>)
    /\ buffer = <<>>
    /\ delivered = <<<<"a">>>>

\* The data lines of ls whose payload is JSON.
WellFormedLines(ls) ==
    SelectSeq(ls, LAMBDA l : IsDataLine(l) /\ JsonContent(Tail(Trim(l))).ok)

HasMalformedLine ==
    \E i \in 1..Len(BodyLines) :
        /\ IsDataLine(BodyLines[i]) /\ ~IsDoneLine(BodyLines[i])
        /\ ~JsonContent(Tail(Trim(BodyLines[i]))).ok

\* C29: a `data: ` line whose payload is not JSON is skipped: the reader never
\* fails on it, and the deltas given for a body read to its end are those of
\* its well-formed lines, the ones after a malformed line included.
C29_MalformedSkipped ==
    /\ readerPc # "thrown"
    /\ readerPc = "ended" => delivered = DeltasOf(WellFormedLines(BodyLines))
    /\ readerPc = "returned"
          => delivered = DeltasOf(WellFormedLines(BeforeDone))

\* A cut payload between a and b: both deltas are given.
C29_Witness ==
    /\ readerPc = "ended" /\ HasMalformedLine
    /\ body = BodyOf(<<<<"data: ", "{a", "}">>, <<"data: ", "{a">>,
                       <<"data: ", "{b", "}", " ">>>>, <<>>)
    /\ delivered = <<<<"a">>, <<"b">>>>

\* The characters of c that are not whitespace.
RECURSIVE NonBlank(_)
NonBlank(c) ==
    IF c = <<>> THEN 0
    ELSE (IF Head(c).ws THEN 0 ELSE Head(c).n) + NonBlank(Tail(c))

\* The first `limit` results.
FirstResults ==
    [k \in 1..(IF Len(results) < limit THEN Len(results) ELSE limit) |-> results[k]]

\* The value returned holds the results of rs, in their order, and these alone.
IsSubSeqOf(ret, rs) ==
    \E f \in [1..Len(ret) -> 1..Len(rs)] :
        /\ \A i \in 1..Len(ret) : ret[i].url = rs[f[i]].url
        /\ \A i, j \in 1..Len(ret) : i < j => f[i] < f[j]

\* C22 as stated: the race never rejects; after the timeout the first `limit`
\* results are returned as bare snippets, otherwise only results whose
\* fetched content has more than 50 non-blank characters; at most `limit`.
C22_Original ==
    fetchPc = "returned"
    => /\ Len(fetchReturn) <= limit
       /\ IF timedOut THEN fetchReturn = FirstResults
          ELSE \A i \in 1..Len(fetchReturn) :
                   NonBlank(fetchReturn[i].content) > MinContent

\* C22 amended: the race never rejects; after the timeout the first `limit`
\* results are returned as bare snippets; otherwise the results returned are
\* those of the first `limit`, in order, whose fetched text, cut to its first
\* 15000 characters, is longer than 50 characters once trimmed of leading and
\* trailing whitespace (whitespace inside counts), each with the cut text as
\* its content; at most `limit` results in either case.
C22_FetchRace ==
    /\ fetchPc \in {"race", "returned"}
    /\ fetchPc = "returned"
       => /\ Len(fetchReturn) <= limit
          /\ IF timedOut THEN fetchReturn = FirstResults
             ELSE /\ IsSubSeqOf(fetchReturn, FirstResults)
                  /\ \A k \in 1..Len(FirstResults) :
                        LET cut == Slice(texts[k], ContentCap)
                            long == Length(TrimRuns(cut)) > MinContent
                        IN  long <=> \E i \in 1..Len(fetchReturn) :
                                        /\ fetchReturn[i].url = results[k].url
                                        /\ fetchReturn[i].content = cut

\* Three results, limit 2: the first page has 50 characters, the second two
\* words of 25 characters 5 blanks apart; the second alone is returned.
C22_Witness ==
    /\ fetchPc = "returned" /\ ~timedOut
    /\ Len(results) = 3 /\ limit = 2
    /\ texts = <<<<Run(FALSE, 50)>>,
                 <<Run(FALSE, 25), Run(TRUE, 5), Run(FALSE, 25)>>>>
    /\ Len(fetchReturn) = 1 /\ fetchReturn[1].url = Hit(2).url

\* C21: the queries of a batch run concurrently and are joined when all have
\* settled: under every interleaving and for every set of failing queries no
\* mapper and no batch ends by an error, the batch resolves only after every
\* mapper settled, with one entry per query in the order of the queries; a
\* query whose search failed has an empty page list, and every other query
\* has the pages its own content fetch returned.
C21_AllSettled ==
    /\ batchPc \in {"running", "joined"}
    /\ \A i \in 1..Len(mappers) :
          /\ mappers[i].pc \in {"mcp", "ddg", "contents", "settled"}
          /\ mappers[i].failed /\ mappers[i].pc = "settled"
                => mappers[i].pages = <<>>
    /\ batchPc = "joined"
       => /\ Len(batchResult) = Len(batchQueries)
          /\ \A i \in 1..Len(batchQueries) :
                /\ mappers[i].pc = "settled"
                /\ batchResult[i].query = batchQueries[i]
                /\ batchResult[i].pages = mappers[i].pages
                /\ mappers[i].failed => batchResult[i].pages = <<>>

\* The search of the first query failed and its mapper settled first; the
\* second query went on and contributes two pages with content.
C21_Witness ==
    /\ batchPc = "joined" /\ Len(batchQueries) = 2
    /\ settleOrder = <<1, 2>>
    /\ mappers[1].failed /\ batchResult[1].pages = <<>>
    /\ ~mappers[2].failed /\ Len(batchResult[2].pages) = 2
    /\ batchResult[2].pages[1].content = <<Run(FALSE, 80)>>

\* ---- C31
\* C31: the accumulated citation list only grows: every step of an invocation
\* leaves the citations accumulated before it in place as a prefix of the list
\* after it.
C31_CitationsGrow == [][IsPrefix(groundingMetadata, groundingMetadata')]_vars

\* The list holds the pages of the pre-loop search and, after them, the pages
\* a search batch appended; the synthesis stream is being read.
C31_Witness ==
    /\ pc = "sse"
    /\ preSearch.pages # <<>>
    /\ batches # <<>>
    /\ Len(groundingMetadata) > Len(preSearch.pages)
    /\ IsPrefix(ToMeta(preSearch.pages), groundingMetadata)

\* ---- C32
TagPairs ==
    {<<"<DEEP>", "</DEEP>">>, <<"<IMAGE>", "</IMAGE>">>, <<"<PROJECT>", "</PROJECT>">>,
     <<"<CANVAS_TRIGGER>", "</CANVAS_TRIGGER>">>, <<"<CANVAS_TRIGGER>", "</CANVASTRIGGER>">>,
     <<"<CANVAS>", "</CANVAS>">>, <<"<STUDY>", "</STUDY>">>}

\* What the tags of a segment capture.
TagContents(buf) ==
    {Match(buf, t[1], t[2]).inner : t \in {u \in TagPairs : Match(buf, u[1], u[2]).found}}
    \cup {MatchAll(buf, "<SEARCH>", "</SEARCH>")[i] :
             i \in 1..Len(MatchAll(buf, "<SEARCH>", "</SEARCH>"))}

\* The synthesis prompt of the batch that just ran on the segment.
BatchPrompt(buf, context) ==
    SynthesisPrompt(prompt, Queries(MatchAll(buf, "<SEARCH>", "</SEARCH>")), context)

\* C32 as stated: a prompt rewrite fully replaces the active instruction, and
\* once a rewrite replaced a prompt that prompt is never sent again as the
\* current user turn of a later iteration.
C32_Original ==
    \A i \in 1..Len(sent) : \A j \in 1..Len(sent) :
        (i < j /\ sent[i + 1] # sent[i]) => sent[j] # sent[i]

\* C32: a prompt rewrite fully replaces the active instruction: the prompt a
\* continuing iteration leaves behind is what a tag of its segment captured or
\* the synthesis prompt of its batch, nothing changes it before the next
\* iteration starts, and the current user turn of the next request is exactly
\* that prompt.  (An earlier prompt comes back when a later tag captures the
\* same text.)
C32_RewriteReplaces ==
    [][/\ (pc = "tags" /\ pc' = "loop")
            => currentPrompt' \in TagContents(generatedThisLoop)
                    \cup {BatchPrompt(generatedThisLoop, fallbackSearchContext')}
       /\ pc = "loop" => currentPrompt' = currentPrompt
       /\ sent' # sent => pc = "loop" /\ sent' = Append(sent, currentPrompt)]_vars

\* The second request went out with the content of the DEEP tag of the first
\* response as its user turn, not with the prompt of the call.
C32_Witness ==
    /\ pc \in {"stream", "sse"}
    /\ Len(sent) = 2
    /\ currentAction = "DEEP_SEARCH"
    /\ sent[2] = <<"why">>
    /\ sent[1] = prompt

\* ---- C33
\* Where a URL first appears in a list of sources.
FirstAt(a, uri) == SetMin({i \in 1..Len(a) : a[i].uri = uri})

\* C33: the citation list shown for a result is deduplicated by URL and ordered
\* by first appearance: every URL of the result's citations is shown once, as
\* its first occurrence, and the shown sources keep the order of those first
\* occurrences.
C33_UniqueByFirst ==
    result.kind = "ok" =>
        \E a \in {result.citations} : \E u \in {UniqueSources(result.citations)} :
            /\ \A i \in 1..Len(u) : \A j \in 1..Len(u) : i # j => u[i].uri # u[j].uri
            /\ {u[i].uri : i \in 1..Len(u)} = {a[i].uri : i \in 1..Len(a)}
            /\ \A i \in 1..Len(u) : u[i] = a[FirstAt(a, u[i].uri)]
            /\ \A i \in 1..Len(u) : \A j \in 1..Len(u) :
                   i < j => FirstAt(a, u[i].uri) < FirstAt(a, u[j].uri)

\* A result whose citations repeat a URL after another one came in between.
C33_Witness ==
    /\ pc = "done"
    /\ result.kind = "ok"
    /\ Len(result.citations) >= 3
    /\ result.citations[1].uri = result.citations[3].uri
    /\ result.citations[1].uri # result.citations[2].uri

\* ---- C34
\* The SEARCH tags of the segment are all empty or hold whitespace only.
AllSearchEmpty(buf) ==
    /\ MatchAll(buf, "<SEARCH>", "</SEARCH>") # <<>>
    /\ Queries(MatchAll(buf, "<SEARCH>", "</SEARCH>")) = <<>>

\* C34: a segment whose SEARCH tags are all empty or whitespace-only gives an
\* empty query set, runs no search and fails on no backend: the tag checks of
\* such a segment never end the invocation with an error result.
C34_EmptyQueriesHarmless ==
    [][(pc = "tags" /\ AllSearchEmpty(generatedThisLoop))
          => /\ batches' = batches
             /\ result'.kind # "error"
             /\ caught' = NoError]_vars

\* ---- C35
\* C35: without an OpenRouter key the invocation always runs on the native
\* backend: whatever the requested model and the (non-instant) thinking mode,
\* the backend the loop starts with is native, and the invocation never ends
\* with the "OpenRouter API Key not found" error.
C35_NoKeyIsNative ==
    (InLoopMode /\ ~openRouterKey /\ pc \in {"loop", "done"})
        => (isNative /\ caught # KeyMissingError)

\* ---- C36
\* C36: a fallback substitution made by the retry policy in one iteration does
\* not persist: the first stream-open attempt of every iteration uses the model
\* resolved at call entry, whatever model the call before ended with.
C36_SubstitutionLocal ==
    (pc = "open" /\ attempt = 0 /\ lastError = NoError) => paramsModel = ParamsModel(model)

\* The stream of an earlier iteration was opened on the fallback model after a
\* substitution; the first attempt of a later iteration is about to be made on
\* the resolved model.
C36_Witness ==
    /\ pc = "open"
    /\ attempt = 0
    /\ lastError = NoError
    /\ loopCount >= 2
    /\ lastParams = FallbackModel
    /\ model # FallbackModel
    /\ paramsModel = model

\* ---- C37
\* C37: a cancelled invocation returns the citations accumulated so far
\* together with the partial text, whichever backend was streaming and
\* whichever way the cancellation was detected (the polled flag or an
\* AbortError from the transport).
C37_CancelKeepsCitations ==
    (pc = "done" /\ aborted /\ result.kind \in {"ok", "stopped"})
        => /\ result.citations = groundingMetadata
           /\ finalResponseText # <<>> => result.text = finalResponseText

\* ---- C38
\* No saveMemory call is in flight.
MemoryQuiet == \A c \in 1..Len(memCalls) : memCalls[c].pc \in {"returned", "thrown"}

\* C38: saveMemory keeps at most one stored memory per (user, layer, key):
\* after any sequence or interleaving of calls with the same user, layer and
\* key, when no call is in flight and one has returned, exactly one row exists
\* for the key and it holds the value of the call that returned last.
C38_OneRowPerKey ==
    (MemoryQuiet /\ memDone # <<>>)
        => /\ Len(memRows) = 1
           /\ memRows[1].content = memCalls[memDone[Len(memDone)]].value

====
